---- MODULE Spec2Model ----
(***************************************************************************)
(* Model of the cognitive memory engine of Legacy-Backend: the synchronous *)
(* chat turn (apps/ai/graphs/chat_graph.py), the background jobs           *)
(* (apps/ai/tasks.py), the entity resolver                                  *)
(* (apps/ai/services/entity_resolver.py), the knowledge pipeline            *)
(* (apps/ai/graphs/knowledge_graph.py) and the friend profiler              *)
(* (apps/ai/services/friend_profiler.py).                                   *)
(*                                                                         *)
(* The module holds several specifications over one set of variables; each *)
(* specification moves one group of variables and leaves the others at     *)
(* their initial value:                                                    *)
(*   SpecChat         turns, check_memory_compression, compress_chapter    *)
(*   SpecResolve      sequential EntityResolver.resolve calls              *)
(*   SpecResolveConc  resolve calls of concurrently running jobs           *)
(*   SpecKnowledge    process_knowledge_extraction, delivered at least once*)
(*   SpecProfile      the jobs that write one user's FriendProfile         *)
(*   SpecJobs         the background jobs of one turn, with fairness       *)
(*   SpecContext      get_llm_context against turns saving messages        *)
(*   SpecCheckIn      one should_check_in call                             *)
(*   SpecTurn         one turn for request ids that may have no row        *)
(*   SpecCleanup      a turn and cleanup_compressed_messages               *)
(*   SpecMood         profile updates on a full mood history               *)
(*   SpecTrend        the first profile updates of a new user              *)
(*   SpecPersist      turns whose database statements can fail             *)
(*   SpecNormalize    _normalize_name applied twice to a mention           *)
(***************************************************************************)
EXTENDS Integers, Sequences, FiniteSets, TLC

\* ------------------------------------------------------------------------
\* Bounds of the model
\* ------------------------------------------------------------------------

\* turns already persisted on the chapter when the model starts (at most)
InitTurns == 9

\* turns that run (concurrently) on the chapter in SpecChat
MaxTurns == 2

Turns == 1..MaxTurns

Max(a, b) == IF a >= b THEN a ELSE b

Min(a, b) == IF a <= b THEN a ELSE b

\* ------------------------------------------------------------------------
\* State
\* ------------------------------------------------------------------------
VARIABLES
  \* --- chapter row, message table, job queue (SpecChat) ---
  message_count,    \* Chapter.message_count
  summary_text,     \* Chapter.summary_text, as the set of message ids folded into it
  messages,         \* Message table of the chapter: sequence, index = id (timestamp order)
  pc,               \* per turn: the stage of chat_graph it is about to run
  ctx_count,        \* per turn: chapter.message_count as read by retrieve_context
  llm,              \* per turn: outcome of the completion-service call
  ai_response,      \* per turn: state['ai_response']
  tokens_used,      \* per turn: state['response_metadata']['tokens_used']
  user_message_id,  \* per turn: state['user_message_id'] (0 = None)
  ai_message_id,    \* per turn: state['ai_message_id'] (0 = None)
  queue,            \* jobs enqueued with .delay() and not yet run
  cjob,             \* per turn: the compress_chapter_memory job its check scheduled
  ljob,             \* per turn: the update_library_summary job its compression enqueued
  cleanup,          \* the cleanup_compressed_messages job: its position, keep_ids, what it deleted
  count0,           \* history: message_count at the start
  trace,            \* history: per turn, the nodes it entered and the calls it made, in order
  reached,          \* history: multiples of 20 a persist brought message_count to
  scheduledFor,     \* history: message_count values a compression was scheduled at
  enqueued,         \* history: every job ever enqueued with .delay()
  \* --- Entity table and resolve calls (SpecResolve, SpecResolveConc) ---
  entities,         \* Entity rows of the user: sequence in insertion order, index = id
  resolved_to,      \* history: per entity, the resolve calls that returned it
  last_resolve,     \* history: the last completed resolve call and its result
  nres,             \* resolve calls issued so far
  proc,             \* per job: its position in a resolve call run step by step
  \* --- FriendProfile and its writers (SpecKnowledge, SpecProfile) ---
  profile,          \* the user's FriendProfile row, if there is one
  entity_mentions,  \* EntityMention rows in insertion order
  kjob,             \* per delivery of a knowledge job: its node and its state
  pjob,             \* per update_session_primer job: its position and its copy
  after_first,      \* history: the database when the first delivery had finished
  njob,             \* the update_life_narrative job: its position and its state
  \* --- context loader and proactive engagement (SpecContext, SpecCheckIn) ---
  chapters,         \* Chapter rows of the user: library, message_count, Message rows
  context,          \* the LLMContext the last get_llm_context call returned
  check_in,         \* one should_check_in call: what it reads and what it returned
  request,          \* one process_chat_message call: its ids, its stage, its result
  norm              \* one mention: its name, the key stored for it, the key of that key

chatVars == <<message_count, summary_text, messages, pc, ctx_count, llm, ai_response,
              tokens_used, user_message_id, ai_message_id, queue, cjob, ljob,
              cleanup, count0, trace, reached, scheduledFor,
              enqueued>>

entVars == <<entities, resolved_to, last_resolve, nres, proc>>

profVars == <<profile, entity_mentions, kjob, pjob, after_first, njob>>

svcVars == <<chapters, context, check_in, request, norm>>

vars == <<chatVars, entVars, profVars, svcVars>>

\* what the actions of one specification leave alone
notChat == <<entVars, profVars, svcVars>>

notEnt == <<chatVars, profVars, svcVars>>

\* ------------------------------------------------------------------------
\* Strings: names are sequences of characters
\* ------------------------------------------------------------------------

UpperChars == <<"A","B","C","D","E","F","G","H","I","J","K","L","M",
                "N","O","P","Q","R","S","T","U","V","W","X","Y","Z">>

LowerChars == <<"a","b","c","d","e","f","g","h","i","j","k","l","m",
                "n","o","p","q","r","s","t","u","v","w","x","y","z">>

LowerChar(c) ==
  IF \E i \in DOMAIN UpperChars : UpperChars[i] = c
    THEN LowerChars[CHOOSE i \in DOMAIN UpperChars : UpperChars[i] = c]
    ELSE c

\* str.lower()
Lower(s) == [i \in 1..Len(s) |-> LowerChar(s[i])]

Whitespace == {" "}

RECURSIVE LStrip(_)
LStrip(s) == IF s # <<>> /\ Head(s) \in Whitespace THEN LStrip(Tail(s)) ELSE s

RECURSIVE RStrip(_)
RStrip(s) ==
  IF s # <<>> /\ s[Len(s)] \in Whitespace THEN RStrip(SubSeq(s, 1, Len(s) - 1)) ELSE s

\* str.strip()
Strip(s) == RStrip(LStrip(s))

\* str.startswith(prefix)
StartsWith(s, prefix) ==
  Len(s) >= Len(prefix) /\ SubSeq(s, 1, Len(prefix)) = prefix

\* prefixes = ['my ', 'the ', 'a ', 'our ']
Prefixes == << <<"m","y"," ">>, <<"t","h","e"," ">>, <<"a"," ">>, <<"o","u","r"," ">> >>

\* the for loop of _normalize_name from prefix k on: one pass over the list
RECURSIVE StripPrefixes(_, _)
StripPrefixes(s, k) ==
  IF k > Len(Prefixes)
    THEN s
    ELSE StripPrefixes(IF StartsWith(s, Prefixes[k])
                         THEN SubSeq(s, Len(Prefixes[k]) + 1, Len(s))
                         ELSE s,
                       k + 1)

\* EntityResolver._normalize_name
NormalizeName(name) == Strip(StripPrefixes(Strip(Lower(name)), 1))

\* words of the mentions SpecNormalize checks
MaxWords == 3

\* the four prefixes and a name
MentionWords ==
  {<<"m","y">>, <<"T","h","e">>, <<"a">>, <<"o","u","r">>, <<"J","a","n","e">>}

\* the mentions of n words with one blank between two words
RECURSIVE MentionsOfWords(_)
MentionsOfWords(n) ==
  IF n = 1 THEN MentionWords
  ELSE {m \o <<" ">> \o w : m \in MentionsOfWords(n - 1), w \in MentionWords}

\* a mention whose key has not been computed
MentionOf(entity_name) ==
  [at |-> "mention", entity_name |-> entity_name, name_normalized |-> <<>>,
   key_normalized |-> <<>>]

NoMention == MentionOf(<<>>)

\* one row of the longest-common-subsequence table: cur holds the entries for
\* columns 0..Len(cur)-1 of the row of character c, prev is the row above
RECURSIVE LcsRow(_, _, _, _)
LcsRow(prev, c, t, cur) ==
  IF Len(cur) = Len(t) + 1
    THEN cur
    ELSE LET j == Len(cur) IN
           LcsRow(prev, c, t,
                  Append(cur, IF c = t[j] THEN prev[j] + 1
                                          ELSE Max(prev[j + 1], cur[j])))

RECURSIVE LcsRows(_, _, _, _)
LcsRows(s, t, i, prev) ==
  IF i > Len(s) THEN prev ELSE LcsRows(s, t, i + 1, LcsRow(prev, s[i], t, <<0>>))

\* the number of matching characters SequenceMatcher reports for s and t
MatchingChars(s, t) == LcsRows(s, t, 1, [j \in 1..(Len(t) + 1) |-> 0])[Len(t) + 1]

\* int(round(num / den)) for num, den > 0: Python rounds halves to even
RoundHalfEven(num, den) ==
  LET q == num \div den
      r == num % den
  IN IF 2 * r > den THEN q + 1
     ELSE IF 2 * r < den THEN q
     ELSE IF q % 2 = 0 THEN q ELSE q + 1

\* fuzz.ratio(s1, s2): 100 for equal strings, 0 when one is empty, otherwise
\* round(100 * 2 * M / (len(s1) + len(s2)))
RatioOf(s1, s2) ==
  IF s1 = s2 THEN 100
  ELSE IF s1 = <<>> \/ s2 = <<>> THEN 0
  ELSE RoundHalfEven(200 * MatchingChars(s1, s2), Len(s1) + Len(s2))

\* ------------------------------------------------------------------------
\* Entity resolver: entity_resolver.py
\* ------------------------------------------------------------------------

\* SIMILARITY_THRESHOLD
SIMILARITY_THRESHOLD == 85

S_Jane == <<"J", "a", "n", "e">>

S_My_Jane == <<"m", "y", " ", "J", "a", "n", "e">>

S_Janes == <<"J", "a", "n", "e", "s">>

S_Janess == <<"J", "a", "n", "e", "s", "s">>

S_Christopher_Lee == <<"C", "h", "r", "i", "s", "t", "o", "p", "h", "e", "r", " ", "L", "e", "e">>

S_Christopher == <<"C", "h", "r", "i", "s", "t", "o", "p", "h", "e", "r">>

\* the mention names the resolve calls of the model are issued with
MentionNames == {S_Jane, S_My_Jane, S_Janes, S_Janess, S_Christopher_Lee,
                 S_Christopher}

\* every string fuzz.ratio is called with: a normalized mention against a
\* normalized name or a lowercased alias
ComparedStrings ==
  {NormalizeName(m) : m \in MentionNames} \cup {Lower(m) : m \in MentionNames}

\* fuzz.ratio over the strings of the model, computed once
RatioTable == [s1 \in ComparedStrings, s2 \in ComparedStrings |-> RatioOf(s1, s2)]

Ratio(s1, s2) == RatioTable[s1, s2]

\* sentiment scores are kept exactly: num / (10 * 2^exp)
SentimentOf(tenths) == [num |-> tenths, exp |-> 0]

RECURSIVE Pow2(_)
Pow2(n) == IF n = 0 THEN 1 ELSE 2 * Pow2(n - 1)

\* (entity.sentiment_score + sentiment_score) / 2
BlendSentiment(old, tenths) ==
  [num |-> old.num + tenths * Pow2(old.exp), exp |-> old.exp + 1]

\* len(entity.summary): the facts joined by "\n" + bullet + " " (5 characters),
\* the leading newline stripped
RECURSIVE SummaryLen(_)
SummaryLen(summary) ==
  IF summary = <<>> THEN 0
  ELSE IF Len(summary) = 1 THEN Len(summary[1].text) + (IF summary[1].bullet THEN 4 ELSE 0)
  ELSE SummaryLen(SubSeq(summary, 1, Len(summary) - 1)) + 5
         + Len(summary[Len(summary)].text)

\* the facts whose text is part of the summary: the summary is kept as the
\* list of the facts joined into it, and `fact not in summary` is membership
\* (no fact of the model is a substring of another)
SummaryFacts(summary) == {summary[i].text : i \in DOMAIN summary}

\* _exact_match: the entity with this normalized name and type (0 = None)
ExactMatch(store, normalized_name, entity_type) ==
  LET found == {i \in DOMAIN store :
                  /\ store[i].name_normalized = normalized_name
                  /\ store[i].entity_type = entity_type}
  IN IF found = {} THEN 0 ELSE CHOOSE i \in found : \A k \in found : i <= k

\* the loop of _fuzzy_match_name from entity i on
RECURSIVE FuzzyNameScan(_, _, _, _, _, _)
FuzzyNameScan(store, normalized_name, entity_type, i, best_match, best_score) ==
  IF i > Len(store) THEN best_match
  ELSE IF store[i].entity_type # entity_type
    THEN FuzzyNameScan(store, normalized_name, entity_type, i + 1, best_match, best_score)
  ELSE LET score == Ratio(normalized_name, store[i].name_normalized) IN
         IF score > SIMILARITY_THRESHOLD /\ score > best_score
           THEN FuzzyNameScan(store, normalized_name, entity_type, i + 1, i, score)
           ELSE FuzzyNameScan(store, normalized_name, entity_type, i + 1,
                              best_match, best_score)

\* _fuzzy_match_name (0 = None)
FuzzyMatchName(store, normalized_name, entity_type) ==
  FuzzyNameScan(store, normalized_name, entity_type, 1, 0, 0)

\* _fuzzy_match_aliases: the first entity one of whose aliases scores above
\* the threshold (0 = None)
FuzzyMatchAliases(store, normalized_name, entity_type) ==
  LET found == {i \in DOMAIN store :
                  /\ store[i].entity_type = entity_type
                  /\ \E k \in DOMAIN store[i].aliases :
                       Ratio(normalized_name, Lower(store[i].aliases[k]))
                         > SIMILARITY_THRESHOLD}
  IN IF found = {} THEN 0 ELSE CHOOSE i \in found : \A k \in found : i <= k

\* _add_alias_if_new, on the in-memory entity
AddAliasIfNew(entity, entity_name) ==
  IF /\ \A k \in DOMAIN entity.aliases : entity.aliases[k] # entity_name
     /\ \A k \in DOMAIN entity.aliases : Lower(entity.aliases[k]) # Lower(entity_name)
    THEN [entity EXCEPT !.aliases = Append(@, entity_name)]
    ELSE entity

\* _update_existing without the cap on importance_score
UpdateExistingNoCap(db_row, entity, fact, relationship, sentiment_score) ==
  [entity EXCEPT
     !.mention_count = db_row.mention_count + 1,
     !.importance_score = entity.importance_score + 5]

\* _update_existing: the row written by entity.save() for the in-memory entity;
\* mention_count is F('mention_count') + 1, taken from the committed row.
\* importance_score is in hundredths.
UpdateExisting(db_row, entity, fact, relationship, sentiment_score) ==
  [entity EXCEPT
     !.mention_count = db_row.mention_count + 1,
     !.relationship_to_user =
        IF relationship # "" /\ entity.relationship_to_user = ""
          THEN relationship ELSE @,
     !.sentiment_score =
        IF sentiment_score # 0 THEN BlendSentiment(@, sentiment_score) ELSE @,
     !.summary =
        IF fact # "" /\ fact \notin SummaryFacts(entity.summary)
             /\ SummaryLen(entity.summary) < 500
          THEN Append(@, [text |-> fact, bullet |-> TRUE])
          ELSE @,
     !.importance_score = Min(100, entity.importance_score + 5)]

\* _create_new with the normalized name stored as the alias
CreateNewNormalizedAlias(entity_name, normalized_name, entity_type, fact, relationship, sentiment_score) ==
  [name |-> entity_name,
   name_normalized |-> normalized_name,
   entity_type |-> entity_type,
   aliases |-> <<normalized_name>>,
   summary |-> IF fact # "" THEN <<[text |-> fact, bullet |-> FALSE]>> ELSE <<>>,
   relationship_to_user |-> relationship,
   sentiment_score |-> SentimentOf(sentiment_score),
   importance_score |-> 50,
   mention_count |-> 1]

\* _create_new: the row Entity.objects.create inserts
CreateNew(entity_name, normalized_name, entity_type, fact, relationship, sentiment_score) ==
  [name |-> entity_name,
   name_normalized |-> normalized_name,
   entity_type |-> entity_type,
   aliases |-> <<entity_name>>,
   summary |-> IF fact # "" THEN <<[text |-> fact, bullet |-> FALSE]>> ELSE <<>>,
   relationship_to_user |-> relationship,
   sentiment_score |-> SentimentOf(sentiment_score),
   importance_score |-> 50,
   mention_count |-> 1]

\* EntityResolver.resolve run without interruption on the table `store`:
\* the table afterwards, the entity returned and was_created
Resolve(store, in) ==
  LET normalized_name == NormalizeName(in.entity_name)
      exact == ExactMatch(store, normalized_name, in.entity_type)
      fuzzy == FuzzyMatchName(store, normalized_name, in.entity_type)
      alias == FuzzyMatchAliases(store, normalized_name, in.entity_type)
  IN IF exact # 0
       THEN [store |-> [store EXCEPT ![exact] =
                          UpdateExisting(@, @, in.fact, in.relationship,
                                         in.sentiment_score)],
             entity |-> exact, created |-> FALSE]
     ELSE IF fuzzy # 0
       THEN [store |-> [store EXCEPT ![fuzzy] =
                          UpdateExisting(@, AddAliasIfNew(@, in.entity_name), in.fact,
                                         in.relationship, in.sentiment_score)],
             entity |-> fuzzy, created |-> FALSE]
     ELSE IF alias # 0
       THEN [store |-> [store EXCEPT ![alias] =
                          UpdateExisting(@, AddAliasIfNew(@, in.entity_name), in.fact,
                                         in.relationship, in.sentiment_score)],
             entity |-> alias, created |-> FALSE]
     ELSE [store |-> Append(store,
                            CreateNew(in.entity_name, normalized_name, in.entity_type,
                                      in.fact, in.relationship, in.sentiment_score)),
           entity |-> Len(store) + 1, created |-> TRUE]

\* resolve calls of SpecResolve
MaxResolves == 4

\* mentions the entity of the initial table has had
InitMentions == 9

\* characters of the long facts of the model
LongFactLen == 300

\* a string of n characters c
RECURSIVE Repeat(_, _)
Repeat(c, n) ==
  IF n = 0 THEN ""
  ELSE IF n = 1 THEN c
  ELSE Repeat(c, n \div 2) \o Repeat(c, n - (n \div 2))

\* the arguments of the resolve calls of SpecResolve
ResolveInputs ==
  { [entity_name |-> S_Jane, entity_type |-> "PERSON", fact |-> "",
     relationship |-> "", sentiment_score |-> 0],
    [entity_name |-> S_My_Jane, entity_type |-> "PERSON", fact |-> "got promoted",
     relationship |-> "sister", sentiment_score |-> 5],
    [entity_name |-> S_Janes, entity_type |-> "PERSON", fact |-> "",
     relationship |-> "", sentiment_score |-> 0],
    [entity_name |-> S_Janess, entity_type |-> "PERSON", fact |-> "",
     relationship |-> "", sentiment_score |-> 0],
    [entity_name |-> S_Christopher_Lee, entity_type |-> "PERSON", fact |-> "",
     relationship |-> "", sentiment_score |-> 0],
    [entity_name |-> S_Christopher, entity_type |-> "PERSON", fact |-> "",
     relationship |-> "", sentiment_score |-> 0],
    [entity_name |-> S_Jane, entity_type |-> "ORG", fact |-> "hired me",
     relationship |-> "", sentiment_score |-> 0],
    [entity_name |-> S_Jane, entity_type |-> "PERSON", fact |-> Repeat("x", LongFactLen),
     relationship |-> "", sentiment_score |-> 0],
    [entity_name |-> S_Jane, entity_type |-> "PERSON", fact |-> Repeat("y", LongFactLen),
     relationship |-> "", sentiment_score |-> 0] }

\* the row of an entity created for `in` and mentioned n times in all
RECURSIVE Mentioned(_, _)
Mentioned(in, n) ==
  IF n = 1
    THEN CreateNew(in.entity_name, NormalizeName(in.entity_name), in.entity_type,
                   in.fact, in.relationship, in.sentiment_score)
    ELSE LET row == Mentioned(in, n - 1) IN
           UpdateExisting(row, row, in.fact, in.relationship, in.sentiment_score)

\* the entity tables the resolve calls start from: none, or one entity that
\* was mentioned InitMentions times
InitStores ==
  {[entities |-> <<>>, resolved_to |-> <<>>],
   [entities |->
      << Mentioned([entity_name |-> S_Jane, entity_type |-> "PERSON", fact |-> "",
                    relationship |-> "", sentiment_score |-> 0], InitMentions) >>,
    resolved_to |-> <<InitMentions>>]}

NoResolve == [called |-> FALSE]

Procs == {1, 2}

IdleProc == [pc |-> "idle"]

InitEntAt(store) ==
  /\ entities = store.entities
  /\ resolved_to = store.resolved_to
  /\ last_resolve = NoResolve
  /\ nres = 0
  /\ proc = [p \in Procs |-> IdleProc]

NoEntities == [entities |-> <<>>, resolved_to |-> <<>>]

\* one resolve_entity call, run to completion
ResolveCall(in) ==
  /\ nres < MaxResolves
  /\ LET res == Resolve(entities, in) IN
       /\ entities' = res.store
       /\ resolved_to' =
            IF res.created THEN Append(resolved_to, 1)
            ELSE [resolved_to EXCEPT ![res.entity] = @ + 1]
       /\ last_resolve' = [called |-> TRUE, in |-> in, before |-> entities,
                           entity |-> res.entity, created |-> res.created]
  /\ nres' = nres + 1
  /\ UNCHANGED proc
  /\ UNCHANGED notEnt

NextResolve == \E in \in ResolveInputs : ResolveCall(in)

\* ------------------------------------------------------------------------
\* resolve calls of concurrent knowledge jobs, one database statement a step
\* ------------------------------------------------------------------------

\* resolve calls of SpecResolveConc
MaxConcResolves == 3

\* the arguments of the resolve calls of SpecResolveConc
ConcInputs ==
  {in \in ResolveInputs : in.entity_name \in {S_Jane, S_My_Jane, S_Janes}}

\* unique_together = ['user', 'name_normalized', 'entity_type'] switched off
UniqueTogetherOff(store, row) == TRUE

\* unique_together = ['user', 'name_normalized', 'entity_type']: whether the
\* database accepts `row` as a new row of the user's entities
UniqueTogether(store, row) ==
  \A i \in DOMAIN store :
    ~(store[i].name_normalized = row.name_normalized
        /\ store[i].entity_type = row.entity_type)

\* resolve(): normalized_name = self._normalize_name(entity_name)
StartResolve(p, in) ==
  /\ proc[p].pc = "idle"
  /\ nres < MaxConcResolves
  /\ nres' = nres + 1
  /\ proc' = [proc EXCEPT ![p] =
       [pc |-> "exact_match", in |-> in,
        normalized_name |-> NormalizeName(in.entity_name)]]
  /\ UNCHANGED <<entities, resolved_to, last_resolve>>
  /\ UNCHANGED notEnt

\* 1. self._exact_match
ExactMatchQuery(p) ==
  /\ proc[p].pc = "exact_match"
  /\ LET i == ExactMatch(entities, proc[p].normalized_name, proc[p].in.entity_type) IN
       proc' = [proc EXCEPT ![p] =
         IF i # 0 THEN [pc |-> "update_existing", id |-> i, entity |-> entities[i]] @@ @
                  ELSE [@ EXCEPT !.pc = "fuzzy_match_name"]]
  /\ UNCHANGED <<entities, resolved_to, last_resolve, nres>>
  /\ UNCHANGED notEnt

\* 2. self._fuzzy_match_name
FuzzyMatchNameQuery(p) ==
  /\ proc[p].pc = "fuzzy_match_name"
  /\ LET i == FuzzyMatchName(entities, proc[p].normalized_name,
                             proc[p].in.entity_type) IN
       proc' = [proc EXCEPT ![p] =
         IF i # 0 THEN [pc |-> "add_alias_if_new", id |-> i, entity |-> entities[i]] @@ @
                  ELSE [@ EXCEPT !.pc = "fuzzy_match_aliases"]]
  /\ UNCHANGED <<entities, resolved_to, last_resolve, nres>>
  /\ UNCHANGED notEnt

\* 3. self._fuzzy_match_aliases
FuzzyMatchAliasesQuery(p) ==
  /\ proc[p].pc = "fuzzy_match_aliases"
  /\ LET i == FuzzyMatchAliases(entities, proc[p].normalized_name,
                                proc[p].in.entity_type) IN
       proc' = [proc EXCEPT ![p] =
         IF i # 0 THEN [pc |-> "add_alias_if_new", id |-> i, entity |-> entities[i]] @@ @
                  ELSE [@ EXCEPT !.pc = "create_new"]]
  /\ UNCHANGED <<entities, resolved_to, last_resolve, nres>>
  /\ UNCHANGED notEnt

\* self._add_alias_if_new: entity.save(update_fields=['aliases']) when the
\* mention is not among the aliases of the job's copy
AddAliasStep(p) ==
  /\ proc[p].pc = "add_alias_if_new"
  /\ LET entity == AddAliasIfNew(proc[p].entity, proc[p].in.entity_name) IN
       /\ entities' =
            IF entity # proc[p].entity
              THEN [entities EXCEPT ![proc[p].id].aliases = entity.aliases]
              ELSE entities
       /\ proc' = [proc EXCEPT ![p].pc = "update_existing", ![p].entity = entity]
  /\ UNCHANGED <<resolved_to, last_resolve, nres>>
  /\ UNCHANGED notEnt

\* self._update_existing: entity.save() writes the job's copy over the row
UpdateExistingStep(p) ==
  /\ proc[p].pc = "update_existing"
  /\ LET in == proc[p].in IN
       entities' = [entities EXCEPT ![proc[p].id] =
         UpdateExisting(@, proc[p].entity, in.fact, in.relationship,
                        in.sentiment_score)]
  /\ resolved_to' = [resolved_to EXCEPT ![proc[p].id] = @ + 1]
  /\ proc' = [proc EXCEPT ![p] = [pc |-> "idle", created |-> FALSE, raised |-> FALSE]]
  /\ UNCHANGED <<last_resolve, nres>>
  /\ UNCHANGED notEnt

\* 4. self._create_new: Entity.objects.create inserts the row or raises
\* IntegrityError
CreateNewStep(p) ==
  /\ proc[p].pc = "create_new"
  /\ LET in == proc[p].in
         row == CreateNew(in.entity_name, proc[p].normalized_name, in.entity_type,
                          in.fact, in.relationship, in.sentiment_score)
     IN IF UniqueTogether(entities, row)
          THEN /\ entities' = Append(entities, row)
               /\ resolved_to' = Append(resolved_to, 1)
               /\ proc' = [proc EXCEPT ![p] =
                    [pc |-> "idle", created |-> TRUE, raised |-> FALSE]]
          ELSE /\ proc' = [proc EXCEPT ![p] =
                    [pc |-> "idle", created |-> FALSE, raised |-> TRUE]]
               /\ UNCHANGED <<entities, resolved_to>>
  /\ UNCHANGED <<last_resolve, nres>>
  /\ UNCHANGED notEnt

NextResolveConc ==
  \E p \in Procs :
    \/ \E in \in ConcInputs : StartResolve(p, in)
    \/ ExactMatchQuery(p)
    \/ FuzzyMatchNameQuery(p)
    \/ FuzzyMatchAliasesQuery(p)
    \/ AddAliasStep(p)
    \/ UpdateExistingStep(p)
    \/ CreateNewStep(p)


\* ------------------------------------------------------------------------
\* FriendProfile: friend_profiler.py
\* ------------------------------------------------------------------------

\* relationship_metrics = {}; `keys` are the keys the JSON object has
EmptyMetrics ==
  [keys |-> {}, total_messages |-> 0, trust_level |-> 0,
   emotional_moments_shared |-> 0, achieved_milestones |-> {}]

\* metrics.get(key, default)
Get(metrics, key, default) == IF key \in metrics.keys THEN metrics[key] ELSE default

\* the row _get_or_create_profile creates; trust_level is in hundredths
ProfilerDefaults ==
  [exists |-> TRUE,
   relationship_metrics |->
     [keys |-> {"total_messages", "trust_level", "achieved_milestones"},
      total_messages |-> 0, trust_level |-> 30, emotional_moments_shared |-> 0,
      achieved_milestones |-> {"first_steps"}],
   current_mood |-> "neutral",
   mood_trend |-> "stable",
   mood_history |-> <<>>,
   recent_wins |-> <<>>,
   next_session_primer |-> 0,
   life_narrative |-> 0]

\* the row update_session_primer creates: every JSON field is {}
PrimerDefaults ==
  [exists |-> TRUE,
   relationship_metrics |-> EmptyMetrics,
   current_mood |-> "unset",
   mood_trend |-> "unset",
   mood_history |-> <<>>,
   recent_wins |-> <<>>,
   next_session_primer |-> 0,
   life_narrative |-> 0]

\* no FriendProfile row
NoProfile == [PrimerDefaults EXCEPT !.exists = FALSE]

\* list[-n:]
LastN(list, n) == IF Len(list) <= n THEN list ELSE SubSeq(list, Len(list) - n + 1, Len(list))

\* list[:n]
FirstN(list, n) == IF Len(list) <= n THEN list ELSE SubSeq(list, 1, n)

\* mood_history[-20:]
MoodHistoryKept == 20

\* recent_wins[:5]
RecentWinsKept == 5

\* _calculate_mood_trend
CalculateMoodTrend(mood_history) ==
  LET positive_moods == {"excited", "happy", "hopeful", "grateful", "proud"}
      negative_moods == {"stressed", "sad", "frustrated", "anxious", "tired"}
      recent == LastN(mood_history, 5)
      positive_count == Cardinality({k \in DOMAIN recent : recent[k].to \in positive_moods})
      negative_count == Cardinality({k \in DOMAIN recent : recent[k].to \in negative_moods})
  IN IF Len(mood_history) < 3 THEN "stable"
     ELSE IF positive_count > negative_count + 1 THEN "improving"
     ELSE IF negative_count > positive_count + 1 THEN "declining"
     ELSE "stable"

\* _update_emotional_context with the whole mood_history kept
UpdateEmotionalContextNoCap(row, emotion) ==
  LET old_mood == IF row.current_mood = "unset" THEN "neutral" ELSE row.current_mood
      moved ==
        IF emotion # old_mood
          THEN [row EXCEPT
                  !.current_mood = emotion,
                  !.mood_history = Append(@, [from |-> old_mood, to |-> emotion])]
          ELSE row
  IN [moved EXCEPT !.mood_trend = CalculateMoodTrend(moved.mood_history)]

\* _update_emotional_context: current_mood, mood_history (the timestamp of an
\* entry is left out) and mood_trend
UpdateEmotionalContext(row, emotion) ==
  LET old_mood == IF row.current_mood = "unset" THEN "neutral" ELSE row.current_mood
      moved ==
        IF emotion # old_mood
          THEN [row EXCEPT
                  !.current_mood = emotion,
                  !.mood_history =
                     LastN(Append(@, [from |-> old_mood, to |-> emotion]), MoodHistoryKept)]
          ELSE row
  IN [moved EXCEPT !.mood_trend = CalculateMoodTrend(moved.mood_history)]

\* _check_life_events: recent_wins; the note of an event is the message it
\* was detected in
CheckLifeEvents(row, exchange) ==
  IF exchange.life_event \in {"achievement", "job_change"}
    THEN [row EXCEPT !.recent_wins = FirstN(<<exchange.message>> \o @, RecentWinsKept)]
    ELSE row

\* _update_relationship_metrics
UpdateRelationshipMetrics(metrics, exchange) ==
  LET counted ==
        [metrics EXCEPT
           !.total_messages = Get(metrics, "total_messages", 0) + 2,
           !.keys = @ \cup {"total_messages"}]
  IN IF exchange.emotional_words
       THEN [counted EXCEPT
               !.emotional_moments_shared =
                  Get(metrics, "emotional_moments_shared", 0) + 1,
               !.trust_level = Min(100, Get(metrics, "trust_level", 30) + 2),
               !.keys = @ \cup {"emotional_moments_shared", "trust_level"}]
       ELSE counted

\* milestones = {...}: the thresholds of each milestone
MilestoneRequirements ==
  [getting_to_know_you |-> [messages |-> 20, trust_level |-> 0, emotional_moments |-> 0],
   regular_conversations |-> [messages |-> 100, trust_level |-> 0, emotional_moments |-> 0],
   trusted_friend |-> [messages |-> 0, trust_level |-> 60, emotional_moments |-> 5],
   deep_connection |-> [messages |-> 0, trust_level |-> 80, emotional_moments |-> 15],
   life_partner |-> [messages |-> 1000, trust_level |-> 95, emotional_moments |-> 0]]

\* _check_milestones: a requirement a milestone does not have is one of 0
CheckMilestones(metrics) ==
  LET achieved == Get(metrics, "achieved_milestones", {"first_steps"})
      total_messages == Get(metrics, "total_messages", 0)
      trust_level == Get(metrics, "trust_level", 30)
      emotional_moments == Get(metrics, "emotional_moments_shared", 0)
      new_milestones ==
        {m \in DOMAIN MilestoneRequirements \ achieved :
           /\ total_messages >= MilestoneRequirements[m].messages
           /\ trust_level >= MilestoneRequirements[m].trust_level
           /\ emotional_moments >= MilestoneRequirements[m].emotional_moments}
  IN IF new_milestones # {}
       THEN [metrics EXCEPT !.achieved_milestones = achieved \cup new_milestones,
                            !.keys = @ \cup {"achieved_milestones"}]
       ELSE metrics

\* analyze_and_update: the row self.profile.save() writes for the job's copy
AnalyzeAndUpdate(row, exchange, emotion) ==
  LET felt == CheckLifeEvents(UpdateEmotionalContext(row, emotion), exchange) IN
    [felt EXCEPT !.relationship_metrics =
       CheckMilestones(UpdateRelationshipMetrics(@, exchange))]

\* exchanges the profile of the initial state has seen
InitExchanges == 9

\* an exchange without entities, emotional words or a detectable emotion
PlainExchange(message) ==
  [message |-> message, emotion |-> "neutral", emotional_words |-> FALSE,
   life_event |-> "none", extractions |-> {<<>>}]

\* the profile after n plain exchanges
RECURSIVE Exchanged(_)
Exchanged(n) ==
  IF n = 0 THEN ProfilerDefaults
  ELSE AnalyzeAndUpdate(Exchanged(n - 1), PlainExchange(0), "neutral")

\* the profiles the jobs start from: none or the one after InitExchanges exchanges
InitProfiles == {NoProfile, Exchanged(InitExchanges)}

\* mood changes the profile of SpecMood has seen when the model starts
InitMoodChanges == 19

\* wins the profile of SpecMood holds when the model starts
InitWins == 4

\* profile updates that run in SpecMood
MaxMoodUpdates == 3

\* the n-th exchange of a user whose mood changes with every exchange and
\* whose first InitWins exchanges report an achievement
MoodyExchange(n) ==
  [message |-> n, emotion |-> IF n % 2 = 1 THEN "happy" ELSE "sad",
   emotional_words |-> FALSE,
   life_event |-> IF n <= InitWins THEN "achievement" ELSE "none",
   extractions |-> {<<>>}]

\* the profile analyze_and_update leaves after the first n of these exchanges,
\* for n >= 10: every exchange changed the mood, the first InitWins ones added
\* a win, 2 * n messages were counted
MoodyProfile(n) ==
  [ProfilerDefaults EXCEPT
     !.current_mood = MoodyExchange(n).emotion,
     !.mood_trend = "stable",
     !.mood_history =
        LastN([k \in 1 .. n |->
                 [from |-> IF k = 1 THEN "neutral" ELSE MoodyExchange(k - 1).emotion,
                  to |-> MoodyExchange(k).emotion]], MoodHistoryKept),
     !.recent_wins = [k \in 1 .. InitWins |-> InitWins + 1 - k],
     !.relationship_metrics =
        [@ EXCEPT !.total_messages = 2 * n,
                  !.achieved_milestones = {"first_steps", "getting_to_know_you"}]]

\* the exchanges of SpecMood: every detected emotion with every life event
MoodExchanges ==
  {[message |-> message, emotion |-> emotion, emotional_words |-> FALSE,
    life_event |-> life_event, extractions |-> {<<>>}] :
     message \in {100, 101}, emotion \in {"neutral", "happy", "sad"},
     life_event \in {"none", "achievement", "job_change", "loss"}}

\* update_friend_profile: FriendProfiler(user_id).analyze_and_update(exchange,
\* emotion) on the stored row, with no other writer in between
UpdateFriendProfile(exchange) ==
  /\ profile.exists
  /\ Get(profile.relationship_metrics, "total_messages", 0)
       < 2 * (InitMoodChanges + MaxMoodUpdates)
  /\ profile' = AnalyzeAndUpdate(profile, exchange, exchange.emotion)
  /\ UNCHANGED <<entity_mentions, kjob, pjob, after_first, njob>>
  /\ UNCHANGED <<chatVars, entVars, svcVars>>

NextMood == \E exchange \in MoodExchanges : UpdateFriendProfile(exchange)

\* profile updates that run in SpecTrend
MaxTrendUpdates == 7

\* the exchanges of SpecTrend: no emotion, two positive ones and a negative one
TrendExchanges ==
  {[message |-> 100, emotion |-> emotion, emotional_words |-> FALSE,
    life_event |-> "none", extractions |-> {<<>>}] :
     emotion \in {"neutral", "happy", "excited", "sad"}}

\* update_friend_profile for a user whose profile was created with the
\* defaults, with no other writer in between
UpdateFriendProfileOfNewUser(exchange) ==
  /\ profile.exists
  /\ Get(profile.relationship_metrics, "total_messages", 0) < 2 * MaxTrendUpdates
  /\ profile' = AnalyzeAndUpdate(profile, exchange, exchange.emotion)
  /\ UNCHANGED <<entity_mentions, kjob, pjob, after_first, njob>>
  /\ UNCHANGED <<chatVars, entVars, svcVars>>

NextTrend == \E exchange \in TrendExchanges : UpdateFriendProfileOfNewUser(exchange)

\* ------------------------------------------------------------------------
\* Knowledge job: tasks.py, knowledge_graph.py
\* ------------------------------------------------------------------------

\* self.retry without a limit
RetryAlways(retries, max_retries) == "retry"

\* self.retry(exc=e, ...): the task is run again while request.retries is
\* below max_retries, otherwise the exception ends it
RetryOrGiveUp(retries, max_retries) ==
  IF retries < max_retries THEN "retry" ELSE "failed"

\* deliveries of knowledge jobs
MaxDeliveries == 2

Deliveries == 1..MaxDeliveries

\* update_session_primer jobs
MaxPrimerJobs == 1

PrimerJobs == 1..MaxPrimerJobs

\* sentiment_map.get(sentiment, 0.0), in tenths
SentimentMap(sentiment) ==
  CASE sentiment = "positive" -> 5
    [] sentiment = "neutral" -> 0
    [] sentiment = "negative" -> -5
    [] sentiment = "hopeful" -> 3
    [] sentiment = "motivated" -> 4
    [] OTHER -> 0

\* the loop of resolve_and_save_entities from entity k of the list on: the
\* entities, the resolve history and the EntityMention rows afterwards
RECURSIVE SaveEntities(_, _, _, _)
SaveEntities(extracted_entities, k, message, db) ==
  IF k > Len(extracted_entities) THEN db
  ELSE LET entity_data == extracted_entities[k]
           name == Strip(entity_data.name)
       IN IF name = <<>>
            THEN SaveEntities(extracted_entities, k + 1, message, db)
            ELSE LET in == [entity_name |-> name,
                            entity_type |-> entity_data.type,
                            fact |-> entity_data.fact,
                            relationship |-> entity_data.relationship,
                            sentiment_score |-> SentimentMap(entity_data.sentiment)]
                     res == Resolve(db.entities, in)
                 IN SaveEntities(extracted_entities, k + 1, message,
                      [entities |-> res.store,
                       resolved_to |->
                         IF res.created THEN Append(db.resolved_to, 1)
                         ELSE [db.resolved_to EXCEPT ![res.entity] = @ + 1],
                       entity_mentions |->
                         IF in.fact # ""
                           THEN Append(db.entity_mentions,
                                       [entity |-> res.entity, message |-> message,
                                        fact_snippet |-> in.fact,
                                        sentiment |-> in.sentiment_score])
                           ELSE db.entity_mentions])

\* the exchange of SpecKnowledge and the lists extract_entities may return for it
KnowledgeExchange ==
  [message |-> 1, emotion |-> "happy", emotional_words |-> TRUE, life_event |-> "none",
   extractions |->
     {<< [name |-> S_Jane, type |-> "PERSON", fact |-> "got promoted",
          relationship |-> "sister", sentiment |-> "positive"] >>,
      << [name |-> S_Christopher, type |-> "PERSON", fact |-> "",
          relationship |-> "", sentiment |-> "neutral"],
         [name |-> <<" ">>, type |-> "TOPIC", fact |-> "is vague",
          relationship |-> "", sentiment |-> "neutral"],
         [name |-> S_My_Jane, type |-> "PERSON", fact |-> "moved to Berlin",
          relationship |-> "", sentiment |-> "hopeful"] >>}]

\* the exchanges of SpecProfile: one per chat turn, none names an entity
ProfileExchanges ==
  [d \in Deliveries |->
     [message |-> d, emotion |-> IF d = 1 THEN "happy" ELSE "sad",
      emotional_words |-> (d = 1), life_event |-> "none", extractions |-> {<<>>}]]

\* process_knowledge: initial_state, and the task's request.retries
QueuedJob(exchange) ==
  [pc |-> "queued", exchange |-> exchange, extracted_entities |-> <<>>,
   detected_emotion |-> "neutral", profile |-> NoProfile,
   llm |-> "none", processing_errors |-> <<>>, entities_saved |-> 0,
   entities_created |-> 0, failed_at |-> 0, processed |-> {}, retries |-> 0]

\* what the completion call of extract_entities can come back with: a JSON
\* array, text that is no JSON, JSON that is no array, or an exception
ExtractOutcomes == {"ok", "malformed", "not_array", "error"}

\* extract_entities with a JSON value that is no array taken as the list
ExtractResultKeepsNonArray(outcome, answer) ==
  [extracted_entities |-> IF outcome \in {"ok", "not_array"} THEN answer ELSE <<>>,
   errors |-> IF outcome = "error" THEN <<"extract_entities">> ELSE <<>>]

\* extract_entities: the list it puts into the state and the errors it adds
ExtractResult(outcome, answer) ==
  [extracted_entities |-> IF outcome = "ok" THEN answer ELSE <<>>,
   errors |-> IF outcome = "error" THEN <<"extract_entities">> ELSE <<>>]

\* the arguments resolve_entity is called with for one extracted item
ItemInput(entity_data) ==
  [entity_name |-> Strip(entity_data.name),
   entity_type |-> entity_data.type,
   fact |-> entity_data.fact,
   relationship |-> entity_data.relationship,
   sentiment_score |-> SentimentMap(entity_data.sentiment)]

\* the items of the list the loop does not skip
NamedItems(extracted_entities) ==
  {k \in DOMAIN extracted_entities : Strip(extracted_entities[k].name) # <<>>}

\* no store failure
NoFailure == [k |-> 0, stage |-> "none"]

\* where the store can fail in the loop: in resolve_entity of item k, or in
\* EntityMention.objects.create of item k
FailurePoints(extracted_entities) ==
  {NoFailure}
    \cup {[k |-> k, stage |-> "resolve_entity"] : k \in NamedItems(extracted_entities)}
    \cup {[k |-> k, stage |-> "EntityMention"] :
            k \in {i \in NamedItems(extracted_entities) : extracted_entities[i].fact # ""}}

\* the loop of resolve_and_save_entities with the store failing at `fail`:
\* the items before it are saved, resolve_entity of the failing item is
\* committed when the failure is in the mention, the items after it are not
\* reached
SaveEntitiesUntil(extracted_entities, fail, message, db) ==
  IF fail.k = 0 THEN SaveEntities(extracted_entities, 1, message, db)
  ELSE LET before == SaveEntities(SubSeq(extracted_entities, 1, fail.k - 1), 1,
                                  message, db)
       IN IF fail.stage = "resolve_entity" THEN before
          ELSE LET res == Resolve(before.entities, ItemInput(extracted_entities[fail.k]))
               IN [before EXCEPT
                     !.entities = res.store,
                     !.resolved_to =
                        IF res.created THEN Append(@, 1)
                        ELSE [@ EXCEPT ![res.entity] = @ + 1]]

NoSnapshot == [taken |-> FALSE]

\* update_life_narrative before it runs; `before` is history: the narrative
\* stored when the job read the profile
QueuedNarrative ==
  [pc |-> "queued", retries |-> 0, existing_narrative |-> 0,
   updated_narrative |-> 0, llm |-> "none", before |-> 0]

\* a knowledge job that has resolved the entities of its exchange (there are
\* none) and is about to run update_profile
AtUpdateProfile(exchange) ==
  [QueuedJob(exchange) EXCEPT !.pc = "update_profile", !.llm = "ok",
                              !.detected_emotion = exchange.emotion]

InitProfAt(row, jobs) ==
  /\ profile = row
  /\ entity_mentions = <<>>
  /\ kjob = jobs
  /\ pjob = [q \in PrimerJobs |->
               [pc |-> "queued", retries |-> 0, emotion |-> jobs[q].exchange.emotion,
                profile |-> NoProfile]]
  /\ after_first = NoSnapshot
  /\ njob = QueuedNarrative

\* the broker hands a delivery to a worker; the second delivery of one message
\* follows the end of the first
Deliver(d) ==
  /\ kjob[d].pc = "queued"
  /\ \A e \in Deliveries :
       (e < d /\ kjob[e].exchange.message = kjob[d].exchange.message)
         => kjob[e].pc \in {"done", "failed"}
  /\ kjob' = [kjob EXCEPT ![d].pc = "extract_entities"]
  /\ UNCHANGED <<profile, entity_mentions, pjob, after_first, njob>>
  /\ UNCHANGED <<chatVars, entVars, svcVars>>

\* extract_entities: the list the model answered with, [] on any failure;
\* only an exception other than JSONDecodeError is added to the errors
ExtractEntities(d) ==
  /\ kjob[d].pc = "extract_entities"
  /\ \E outcome \in ExtractOutcomes, answer \in kjob[d].exchange.extractions :
       LET res == ExtractResult(outcome, answer) IN
         kjob' = [kjob EXCEPT ![d].pc = "analyze_exchange",
                              ![d].llm = outcome,
                              ![d].extracted_entities = res.extracted_entities,
                              ![d].processing_errors = @ \o res.errors]
  /\ UNCHANGED <<profile, entity_mentions, pjob, after_first, njob>>
  /\ UNCHANGED <<chatVars, entVars, svcVars>>

\* analyze_exchange: detect_emotion on the user's part of the exchange
AnalyzeExchange(d) ==
  /\ kjob[d].pc = "analyze_exchange"
  /\ kjob' = [kjob EXCEPT ![d].pc = "resolve_and_save",
                          ![d].detected_emotion = kjob[d].exchange.emotion]
  /\ UNCHANGED <<profile, entity_mentions, pjob, after_first, njob>>
  /\ UNCHANGED <<chatVars, entVars, svcVars>>

\* resolve_and_save_entities: the loop runs inside one try; an exception of
\* the store ends the loop, is logged and added to the errors, and the node
\* returns
ResolveAndSaveEntities(d) ==
  /\ kjob[d].pc = "resolve_and_save"
  /\ \E fail \in FailurePoints(kjob[d].extracted_entities) :
       \E db \in {SaveEntitiesUntil(kjob[d].extracted_entities, fail,
                                    kjob[d].exchange.message,
                                    [entities |-> entities, resolved_to |-> resolved_to,
                                     entity_mentions |-> entity_mentions])} :
          /\ entities' = db.entities
          /\ resolved_to' = db.resolved_to
          /\ entity_mentions' = db.entity_mentions
          /\ kjob' = [kjob EXCEPT
               ![d].pc = "update_profile",
               ![d].failed_at = fail.k,
               ![d].processed =
                  {k \in NamedItems(kjob[d].extracted_entities) :
                     fail.k = 0 \/ k < fail.k},
               ![d].processing_errors =
                  IF fail.k # 0 THEN Append(@, "resolve_and_save") ELSE @,
               ![d].entities_created = Len(db.entities) - Len(entities),
               ![d].entities_saved = Len(db.entity_mentions) - Len(entity_mentions)]
  /\ UNCHANGED <<profile, pjob, after_first, njob>>
  /\ UNCHANGED <<chatVars, last_resolve, nres, proc, svcVars>>

\* the database when delivery d ended, kept for the first delivery
Snapshot(d, row) ==
  IF d = 1
    THEN [taken |-> TRUE, entities |-> entities,
          entity_mentions |-> entity_mentions, profile |-> row]
    ELSE after_first

\* update_profile, FriendProfiler.__init__: get_or_create the row
GetOrCreateProfile(d) ==
  /\ kjob[d].pc = "update_profile"
  /\ profile' = IF profile.exists THEN profile ELSE ProfilerDefaults
  /\ kjob' = [kjob EXCEPT ![d].pc = "analyze_and_update", ![d].profile = profile']
  /\ UNCHANGED <<entity_mentions, pjob, after_first, njob>>
  /\ UNCHANGED <<chatVars, entVars, svcVars>>

\* update_profile, analyze_and_update: self.profile.save() writes the job's
\* copy over the row; the job ends
SaveProfile(d) ==
  /\ kjob[d].pc = "analyze_and_update"
  /\ profile' = AnalyzeAndUpdate(kjob[d].profile, kjob[d].exchange,
                                 kjob[d].detected_emotion)
  /\ kjob' = [kjob EXCEPT ![d].pc = "done", ![d].profile = NoProfile]
  /\ after_first' = Snapshot(d, profile')
  /\ UNCHANGED <<entity_mentions, pjob, njob>>
  /\ UNCHANGED <<chatVars, entVars, svcVars>>

\* update_profile: update_friend_profile raised; the exception is logged and
\* added to the errors, the profile is not saved, the job ends
UpdateProfileFails(d) ==
  /\ kjob[d].pc \in {"update_profile", "analyze_and_update"}
  /\ kjob' = [kjob EXCEPT ![d].pc = "done", ![d].profile = NoProfile,
                          ![d].processing_errors = Append(@, "update_profile")]
  /\ after_first' = Snapshot(d, profile)
  /\ UNCHANGED <<profile, entity_mentions, pjob, njob>>
  /\ UNCHANGED <<chatVars, entVars, svcVars>>

\* @shared_task(bind=True, max_retries=3)
KnowledgeMaxRetries == 3

\* process_knowledge_extraction: process_knowledge raised (analyze_exchange is
\* the node without a handler of its own): self.retry(exc=e, countdown=60)
\* runs the task again from the start, or gives up when the retries are used
KnowledgeRetry(d) ==
  /\ kjob[d].pc = "analyze_exchange"
  /\ kjob' = [kjob EXCEPT ![d] =
       IF RetryOrGiveUp(kjob[d].retries, KnowledgeMaxRetries) = "retry"
         THEN [QueuedJob(kjob[d].exchange) EXCEPT
                 !.pc = "extract_entities", !.retries = kjob[d].retries + 1]
         ELSE [kjob[d] EXCEPT !.pc = "failed"]]
  /\ UNCHANGED <<profile, entity_mentions, pjob, after_first, njob>>
  /\ UNCHANGED <<chatVars, entVars, svcVars>>

NextKnowledge ==
  \E d \in Deliveries :
    \/ Deliver(d)
    \/ ExtractEntities(d)
    \/ AnalyzeExchange(d)
    \/ KnowledgeRetry(d)
    \/ ResolveAndSaveEntities(d)
    \/ GetOrCreateProfile(d)
    \/ SaveProfile(d)
    \/ UpdateProfileFails(d)

\* ------------------------------------------------------------------------
\* Session primer and life narrative jobs: tasks.py, summary_graph.py
\* ------------------------------------------------------------------------

\* bind=True, max_retries=2
PrimerMaxRetries == 2

\* update_session_primer: FriendProfile.objects.get_or_create
PrimerGetOrCreate(q) ==
  /\ pjob[q].pc \in {"queued", "retry"}
  /\ profile' = IF profile.exists THEN profile ELSE PrimerDefaults
  /\ pjob' = [pjob EXCEPT ![q].pc = "completion", ![q].profile = profile']
  /\ UNCHANGED <<entity_mentions, kjob, after_first, njob>>
  /\ UNCHANGED <<chatVars, entVars, svcVars>>

\* update_session_primer: the completion returned and profile.save() wrote the
\* job's copy over the row
PrimerSave(q) ==
  /\ pjob[q].pc = "completion"
  /\ profile' = [pjob[q].profile EXCEPT !.next_session_primer = q,
                                        !.current_mood = pjob[q].emotion]
  /\ pjob' = [pjob EXCEPT ![q].pc = "done", ![q].profile = NoProfile]
  /\ UNCHANGED <<entity_mentions, kjob, after_first, njob>>
  /\ UNCHANGED <<chatVars, entVars, svcVars>>

\* update_session_primer: the completion raised: self.retry(countdown=60)
PrimerRaise(q) ==
  /\ pjob[q].pc = "completion"
  /\ pjob' = [pjob EXCEPT
       ![q].pc = IF pjob[q].retries < PrimerMaxRetries THEN "retry" ELSE "failed",
       ![q].retries = IF pjob[q].retries < PrimerMaxRetries THEN @ + 1 ELSE @,
       ![q].profile = NoProfile]
  /\ UNCHANGED <<profile, entity_mentions, kjob, after_first, njob>>
  /\ UNCHANGED <<chatVars, entVars, svcVars>>

\* @shared_task(bind=True, max_retries=2)
NarrativeMaxRetries == 2

\* the narrative a completion that follows the format is parsed into
NewNarrative == 1

\* a JSON value that is no object (a list, a string, a number)
NotAnObject == -1

\* what the completion of synthesize_life_narrative can come back with: the
\* JSON object asked for, text json.loads rejects, or JSON that is no object
NarrativeOutcomes == {"object", "malformed", "not_object"}

\* synthesize_life_narrative: json.loads(content), the existing narrative on
\* JSONDecodeError
ParseNarrative(outcome, existing_narrative) ==
  CASE outcome = "object" -> NewNarrative
    [] outcome = "not_object" -> NotAnObject
    [] outcome = "malformed" -> existing_narrative

\* update_life_narrative: FriendProfile.objects.get; without a profile the job
\* logs a warning and ends
NarrativeRead ==
  /\ njob.pc \in {"queued", "retry"}
  /\ njob' = IF profile.exists
               THEN [njob EXCEPT !.pc = "synthesize",
                                 !.existing_narrative = profile.life_narrative,
                                 !.before = profile.life_narrative]
               ELSE [njob EXCEPT !.pc = "done"]
  /\ UNCHANGED <<profile, entity_mentions, kjob, pjob, after_first>>
  /\ UNCHANGED <<chatVars, entVars, svcVars>>

\* synthesize_life_narrative: the completion returned
Synthesize ==
  /\ njob.pc = "synthesize"
  /\ \E outcome \in NarrativeOutcomes :
       njob' = [njob EXCEPT
                  !.pc = "save", !.llm = outcome,
                  !.updated_narrative = ParseNarrative(outcome, njob.existing_narrative)]
  /\ UNCHANGED <<profile, entity_mentions, kjob, pjob, after_first>>
  /\ UNCHANGED <<chatVars, entVars, svcVars>>

\* update_life_narrative: the completion raised: self.retry(exc=e, countdown=300)
NarrativeRetry ==
  /\ njob.pc = "synthesize"
  /\ njob' = [njob EXCEPT
                !.pc = RetryOrGiveUp(njob.retries, NarrativeMaxRetries),
                !.retries =
                   IF RetryOrGiveUp(njob.retries, NarrativeMaxRetries) = "retry"
                     THEN @ + 1 ELSE @]
  /\ UNCHANGED <<profile, entity_mentions, kjob, pjob, after_first>>
  /\ UNCHANGED <<chatVars, entVars, svcVars>>

\* save_life_narrative: FriendProfile.objects.filter(...).update(life_narrative=...)
SaveLifeNarrative ==
  /\ njob.pc = "save"
  /\ profile' = IF profile.exists
                  THEN [profile EXCEPT !.life_narrative = njob.updated_narrative]
                  ELSE profile
  /\ njob' = [njob EXCEPT !.pc = "done"]
  /\ UNCHANGED <<entity_mentions, kjob, pjob, after_first>>
  /\ UNCHANGED <<chatVars, entVars, svcVars>>

NextProfile ==
  \/ \E d \in Deliveries :
       \/ GetOrCreateProfile(d)
       \/ SaveProfile(d)
       \/ UpdateProfileFails(d)
  \/ \E q \in PrimerJobs :
       \/ PrimerGetOrCreate(q)
       \/ PrimerSave(q)
       \/ PrimerRaise(q)
  \/ NarrativeRead
  \/ Synthesize
  \/ NarrativeRetry
  \/ SaveLifeNarrative

\* ------------------------------------------------------------------------
\* Chat turn: chat_graph.py
\* ------------------------------------------------------------------------

\* the apology generate_response returns when the completion service fails
Apology == "I'm having trouble responding right now"

Generated == "generated"

\* outcomes of client.chat.completions.create: text with usage, text without
\* usage, or any exception
LLMOutcomes == {"ok", "ok_no_usage", "error"}

\* total_tokens reported by the completion service for a generated response
UsageTokens == 7

\* generate_response with the try/except removed: the exception leaves the node
GenerateResponseNoCatch(outcome) ==
  IF outcome = "error"
    THEN [raised |-> TRUE, ai_response |-> "", tokens_used |-> 0]
    ELSE [raised |-> FALSE, ai_response |-> Generated,
          tokens_used |-> IF outcome = "ok" THEN UsageTokens ELSE 0]

\* generate_response: the result of the node for an outcome of the call
GenerateResponse(outcome) ==
  IF outcome = "error"
    THEN [raised |-> FALSE, ai_response |-> Apology, tokens_used |-> 0]
    ELSE [raised |-> FALSE, ai_response |-> Generated,
          tokens_used |-> IF outcome = "ok" THEN UsageTokens ELSE 0]

\* a read-modify-write of the counter from the value the turn read earlier
IncrementMessageCountRMW(db_count, read_count) == read_count + 2

\* Chapter.objects.filter(id=...).update(message_count=F('message_count') + 2):
\* the database adds 2 to the committed value
IncrementMessageCount(db_count, read_count) == db_count + 2

InitMessages(n) == [i \in 1..n |-> [sender |-> IF i % 2 = 1 THEN "USER" ELSE "AI",
                                    content |-> "old", turn |-> 0]]

\* no compress_chapter_memory job was enqueued for the turn
NoCompressJob ==
  [pc |-> "none", at |-> 0, msgs |-> {}, existing |-> {}, message_count |-> 0,
   count_at_save |-> 0, retries |-> 0]

\* cleanup_compressed_messages is not running and has deleted nothing
NoCleanup == [pc |-> "idle", keep_ids |-> {}, deleted |-> {}]

\* no update_library_summary job was enqueued by the turn's compression
NoLibraryJob == [pc |-> "none", chapter_summary |-> {}]

\* a chapter on which n messages were exchanged, none of them summarized yet,
\* with every turn at `stage` and the compression jobs `jobs`
InitChatWith(n, stage, jobs) ==
  /\ count0 = n
  /\ message_count = count0
  /\ summary_text = {}
  /\ messages = InitMessages(count0)
  /\ pc = [t \in Turns |-> stage]
  /\ ctx_count = [t \in Turns |-> 0]
  /\ llm = [t \in Turns |-> "none"]
  /\ ai_response = [t \in Turns |-> ""]
  /\ tokens_used = [t \in Turns |-> 0]
  /\ user_message_id = [t \in Turns |-> 0]
  /\ ai_message_id = [t \in Turns |-> 0]
  /\ queue = {}
  /\ cjob = jobs
  /\ ljob = [t \in Turns |-> NoLibraryJob]
  /\ cleanup = NoCleanup
  /\ trace = [t \in Turns |-> <<>>]
  /\ reached = {}
  /\ scheduledFor = {}
  /\ enqueued = {}

\* a chapter on which n messages were exchanged, none of them summarized yet
InitChatAt(n) == InitChatWith(n, "retrieve_context", [t \in Turns |-> NoCompressJob])

RetrieveContext(t) ==
  /\ pc[t] = "retrieve_context"
  /\ trace' = [trace EXCEPT ![t] = @ \o <<"retrieve_context">>]
  /\ ctx_count' = [ctx_count EXCEPT ![t] = message_count]
  /\ pc' = [pc EXCEPT ![t] = "analyze_input"]
  /\ UNCHANGED <<message_count, summary_text, messages, llm, ai_response, tokens_used,
                 user_message_id, ai_message_id, queue, cjob, count0, cleanup, ljob, reached,
                 scheduledFor, enqueued>>
  /\ UNCHANGED notChat

AnalyzeInput(t) ==
  /\ pc[t] = "analyze_input"
  /\ trace' = [trace EXCEPT ![t] = @ \o <<"analyze_input">>]
  /\ pc' = [pc EXCEPT ![t] = "assemble_prompt"]
  /\ UNCHANGED <<message_count, summary_text, messages, ctx_count, llm, ai_response,
                 tokens_used, user_message_id, ai_message_id, queue, cjob, count0, cleanup, ljob,
                 reached, scheduledFor, enqueued>>
  /\ UNCHANGED notChat

AssemblePrompt(t) ==
  /\ pc[t] = "assemble_prompt"
  /\ trace' = [trace EXCEPT ![t] = @ \o <<"assemble_prompt">>]
  /\ pc' = [pc EXCEPT ![t] = "generate_response"]
  /\ UNCHANGED <<message_count, summary_text, messages, ctx_count, llm, ai_response,
                 tokens_used, user_message_id, ai_message_id, queue, cjob, count0, cleanup, ljob,
                 reached, scheduledFor, enqueued>>
  /\ UNCHANGED notChat

GenerateResponseStage(t) ==
  /\ pc[t] = "generate_response"
  /\ trace' = [trace EXCEPT ![t] = @ \o <<"generate_response", "completions.create">>]
  /\ \E outcome \in LLMOutcomes :
       LET res == GenerateResponse(outcome) IN
         /\ llm' = [llm EXCEPT ![t] = outcome]
         /\ ai_response' = [ai_response EXCEPT ![t] = res.ai_response]
         /\ tokens_used' = [tokens_used EXCEPT ![t] = res.tokens_used]
         /\ pc' = [pc EXCEPT ![t] = IF res.raised THEN "raised" ELSE "save_user_message"]
  /\ UNCHANGED <<message_count, summary_text, messages, ctx_count, user_message_id,
                 ai_message_id, queue, cjob, count0, cleanup, ljob, reached, scheduledFor, enqueued>>
  /\ UNCHANGED notChat

\* save_messages, first statement: Message.objects.create(sender='USER', ...)
SaveUserMessage(t) ==
  /\ pc[t] = "save_user_message"
  /\ trace' = [trace EXCEPT ![t] = @ \o <<"save_messages", "create USER">>]
  /\ messages' = Append(messages, [sender |-> "USER", content |-> "user", turn |-> t])
  /\ user_message_id' = [user_message_id EXCEPT ![t] = Len(messages) + 1]
  /\ pc' = [pc EXCEPT ![t] = "save_ai_message"]
  /\ UNCHANGED <<message_count, summary_text, ctx_count, llm, ai_response, tokens_used,
                 ai_message_id, queue, cjob, count0, cleanup, ljob, reached, scheduledFor, enqueued>>
  /\ UNCHANGED notChat

\* save_messages, second statement: Message.objects.create(sender='AI', ...)
SaveAIMessage(t) ==
  /\ pc[t] = "save_ai_message"
  /\ trace' = [trace EXCEPT ![t] = @ \o <<"create AI">>]
  /\ messages' = Append(messages, [sender |-> "AI", content |-> ai_response[t], turn |-> t])
  /\ ai_message_id' = [ai_message_id EXCEPT ![t] = Len(messages) + 1]
  /\ pc' = [pc EXCEPT ![t] = "update_message_count"]
  /\ UNCHANGED <<message_count, summary_text, ctx_count, llm, ai_response, tokens_used,
                 user_message_id, queue, cjob, count0, cleanup, ljob, reached, scheduledFor, enqueued>>
  /\ UNCHANGED notChat

\* save_messages, third statement: the counter update
UpdateMessageCount(t) ==
  /\ pc[t] = "update_message_count"
  /\ trace' = [trace EXCEPT ![t] = @ \o <<"update message_count">>]
  /\ message_count' = IncrementMessageCount(message_count, ctx_count[t])
  /\ reached' = IF message_count' % 20 = 0 THEN reached \cup {message_count'} ELSE reached
  /\ pc' = [pc EXCEPT ![t] = "trigger_async_tasks"]
  /\ UNCHANGED <<summary_text, messages, ctx_count, llm, ai_response, tokens_used,
                 user_message_id, ai_message_id, queue, cjob, count0, cleanup, ljob, scheduledFor, enqueued>>
  /\ UNCHANGED notChat

\* save_messages: the statement the turn is about to run raises (a database
\* error); the exception leaves save_messages and process_chat_message, and
\* what the statements before it wrote stays, there is no transaction around
\* them
SaveMessagesRaises(t) ==
  /\ pc[t] \in {"save_user_message", "save_ai_message", "update_message_count"}
  /\ pc' = [pc EXCEPT ![t] = "raised"]
  /\ UNCHANGED <<message_count, summary_text, messages, ctx_count, llm, ai_response,
                 tokens_used, user_message_id, ai_message_id, queue, cjob, ljob, cleanup,
                 count0, trace, reached, scheduledFor, enqueued>>
  /\ UNCHANGED notChat

\* the three jobs trigger_async_tasks enqueues for a turn
TurnJobs(t) ==
  { [task |-> "process_knowledge_extraction", by |-> t],
    [task |-> "check_memory_compression", by |-> t],
    [task |-> "update_session_primer", by |-> t] }

\* the .delay() calls of trigger_async_tasks, in the order of the code
TurnDelays ==
  << "process_knowledge_extraction.delay", "check_memory_compression.delay",
     "update_session_primer.delay" >>

\* trigger_async_tasks placed before the counter update of save_messages
TriggerAsyncTasksBeforeCount(t) ==
  /\ pc[t] = "update_message_count"
  /\ trace' = [trace EXCEPT ![t] = @ \o <<"trigger_async_tasks">> \o TurnDelays]
  /\ queue' = queue \cup TurnJobs(t)
  /\ enqueued' = enqueued \cup TurnJobs(t)
  /\ pc' = [pc EXCEPT ![t] = "done"]
  /\ UNCHANGED <<message_count, summary_text, messages, ctx_count, llm, ai_response,
                 tokens_used, user_message_id, ai_message_id, cjob, count0, cleanup, ljob,
                 reached, scheduledFor>>
  /\ UNCHANGED notChat

\* trigger_async_tasks: three .delay() calls
TriggerAsyncTasks(t) ==
  /\ pc[t] = "trigger_async_tasks"
  /\ trace' = [trace EXCEPT ![t] = @ \o <<"trigger_async_tasks">> \o TurnDelays]
  /\ queue' = queue \cup TurnJobs(t)
  /\ enqueued' = enqueued \cup TurnJobs(t)
  /\ pc' = [pc EXCEPT ![t] = "done"]
  /\ UNCHANGED <<message_count, summary_text, messages, ctx_count, llm, ai_response,
                 tokens_used, user_message_id, ai_message_id, cjob, count0, cleanup, ljob, reached,
                 scheduledFor>>
  /\ UNCHANGED notChat

\* ------------------------------------------------------------------------
\* Compression jobs: tasks.py, summary_graph.py
\* ------------------------------------------------------------------------

\* the trigger condition of check_memory_compression
ShouldCompress(count) == count > 0 /\ count % 20 = 0

\* Message.objects.filter(chapter=chapter): the ids of the rows in the table
LiveMessages == DOMAIN messages \ cleanup.deleted

\* Message.objects.filter(chapter).order_by('-timestamp')[10:30]: of the rows
\* (ids in timestamp order) the ids ranked 11..30 from the newest
MessagesToCompress(ids) ==
  {i \in ids : \E newer \in {Cardinality({j \in ids : j > i})} : newer >= 10 /\ newer < 30}

\* check_memory_compression: reads the chapter when the job runs
CheckMemoryCompression(t) ==
  /\ [task |-> "check_memory_compression", by |-> t] \in queue
  /\ queue' = queue \ {[task |-> "check_memory_compression", by |-> t]}
  /\ IF ShouldCompress(message_count)
       THEN /\ cjob' = [cjob EXCEPT ![t] = [pc |-> "queued", at |-> message_count,
                                            msgs |-> {}, existing |-> {},
                                            message_count |-> 0,
                                            count_at_save |-> 0, retries |-> 0]]
            /\ scheduledFor' = scheduledFor \cup {message_count}
            /\ enqueued' = enqueued \cup {[task |-> "compress_chapter_memory", by |-> t]}
       ELSE UNCHANGED <<cjob, scheduledFor, enqueued>>
  /\ UNCHANGED <<message_count, summary_text, messages, pc, ctx_count, llm, ai_response,
                 tokens_used, user_message_id, ai_message_id, count0, trace, cleanup, ljob, reached>>
  /\ UNCHANGED notChat

\* compress_chapter_memory up to the call of compress_chapter: reads the chapter
\* row and the message window
CompressRead(t) ==
  /\ cjob[t].pc \in {"queued", "retry"}
  /\ LET window == MessagesToCompress(LiveMessages) IN
       cjob' = [cjob EXCEPT ![t] =
                  IF window = {}
                    THEN [@ EXCEPT !.pc = "done"]
                    ELSE [@ EXCEPT !.pc = "read", !.msgs = window,
                                   !.existing = summary_text,
                                   !.message_count = message_count]]
  /\ UNCHANGED <<message_count, summary_text, messages, pc, ctx_count, llm, ai_response,
                 tokens_used, user_message_id, ai_message_id, queue, count0, trace, cleanup, ljob, reached,
                 scheduledFor, enqueued>>
  /\ UNCHANGED notChat

\* the summary saved with chapter.save(): the job's copy of the Chapter row
\* is written over the row
CompressSaveWholeRow(t) ==
  /\ cjob[t].pc = "read"
  /\ summary_text' = cjob[t].existing \cup cjob[t].msgs
  /\ message_count' = cjob[t].message_count
  /\ cjob' = [cjob EXCEPT ![t].pc = "saved", ![t].count_at_save = message_count]
  /\ UNCHANGED <<messages, pc, ctx_count, llm, ai_response, tokens_used,
                 user_message_id, ai_message_id, queue, count0, trace, cleanup, ljob, reached,
                 scheduledFor, enqueued>>
  /\ UNCHANGED notChat

\* compress_chapter: compress_messages and save_chapter_summary. The summary
\* returned for the existing summary and the window replaces
\* Chapter.summary_text in an update of that column alone; count_at_save is
\* history: Chapter.message_count when the update ran
CompressSave(t) ==
  /\ cjob[t].pc = "read"
  /\ summary_text' = cjob[t].existing \cup cjob[t].msgs
  /\ cjob' = [cjob EXCEPT ![t].pc = "saved", ![t].count_at_save = message_count]
  /\ UNCHANGED <<message_count, messages, pc, ctx_count, llm, ai_response, tokens_used,
                 user_message_id, ai_message_id, queue, count0, trace, cleanup, ljob, reached,
                 scheduledFor, enqueued>>
  /\ UNCHANGED notChat

\* update_library_summary.delay(...) with the write of the summary still ahead
CompressEnqueueBeforeSave(t) ==
  /\ cjob[t].pc = "read"
  /\ ljob[t].pc = "none"
  /\ ljob' = [ljob EXCEPT ![t].pc = "queued"]
  /\ queue' = queue \cup {[task |-> "update_library_summary", by |-> t]}
  /\ enqueued' = enqueued \cup {[task |-> "update_library_summary", by |-> t]}
  /\ UNCHANGED <<message_count, summary_text, messages, pc, ctx_count, llm, ai_response,
                 tokens_used, user_message_id, ai_message_id, cjob, count0, trace, cleanup, reached,
                 scheduledFor>>
  /\ UNCHANGED notChat

\* compress_chapter_memory after compress_chapter returned:
\* update_library_summary.delay(str(chapter.library_id))
CompressEnqueue(t) ==
  /\ cjob[t].pc = "saved"
  /\ cjob' = [cjob EXCEPT ![t].pc = "done"]
  /\ ljob' = [ljob EXCEPT ![t].pc = "queued"]
  /\ queue' = queue \cup {[task |-> "update_library_summary", by |-> t]}
  /\ enqueued' = enqueued \cup {[task |-> "update_library_summary", by |-> t]}
  /\ UNCHANGED <<message_count, summary_text, messages, pc, ctx_count, llm, ai_response,
                 tokens_used, user_message_id, ai_message_id, count0, trace, cleanup, reached,
                 scheduledFor>>
  /\ UNCHANGED notChat

\* update_library_summary: reads the summaries of the library's chapters when
\* the job runs and aggregates them into Library.summary_text
UpdateLibrarySummary(t) ==
  /\ [task |-> "update_library_summary", by |-> t] \in queue
  /\ queue' = queue \ {[task |-> "update_library_summary", by |-> t]}
  /\ ljob' = [ljob EXCEPT ![t] = [pc |-> "done", chapter_summary |-> summary_text]]
  /\ UNCHANGED <<message_count, summary_text, messages, pc, ctx_count, llm, ai_response,
                 tokens_used, user_message_id, ai_message_id, cjob, count0, trace, cleanup, reached,
                 scheduledFor, enqueued>>
  /\ UNCHANGED notChat

\* @shared_task(bind=True, max_retries=3)
CompressMaxRetries == 3

\* compress_chapter_memory: the completion of compress_messages raised:
\* self.retry(exc=e, countdown=120)
CompressRetry(t) ==
  /\ cjob[t].pc = "read"
  /\ cjob' = [cjob EXCEPT
       ![t].pc = RetryOrGiveUp(cjob[t].retries, CompressMaxRetries),
       ![t].retries =
          IF RetryOrGiveUp(cjob[t].retries, CompressMaxRetries) = "retry"
            THEN @ + 1 ELSE @,
       ![t].msgs = {}, ![t].existing = {}, ![t].message_count = 0]
  /\ UNCHANGED <<message_count, summary_text, messages, pc, ctx_count, llm, ai_response,
                 tokens_used, user_message_id, ai_message_id, queue, count0, trace, cleanup, ljob, reached,
                 scheduledFor, enqueued>>
  /\ UNCHANGED notChat

\* for chapter in Chapter.objects.filter(message_count__gt=100)
CleanupAbove == 100

\* order_by('-timestamp')[:100]
KeepNewest == 100

\* cleanup_compressed_messages, first query: the ids of the newest 100 Message
\* rows of a chapter with message_count > 100
CleanupRead ==
  /\ cleanup.pc = "idle"
  /\ message_count > CleanupAbove
  /\ cleanup' = [cleanup EXCEPT
       !.pc = "read",
       !.keep_ids = {i \in LiveMessages :
                       Cardinality({j \in LiveMessages : j > i}) < KeepNewest}]
  /\ UNCHANGED <<message_count, summary_text, messages, pc, ctx_count, llm, ai_response,
                 tokens_used, user_message_id, ai_message_id, queue, cjob, ljob, count0, trace,
                 reached, scheduledFor, enqueued>>
  /\ UNCHANGED notChat

\* cleanup_compressed_messages, second query:
\* Message.objects.filter(chapter=chapter).exclude(id__in=keep_ids).delete()
CleanupDelete ==
  /\ cleanup.pc = "read"
  /\ cleanup' = [cleanup EXCEPT
       !.pc = "idle",
       !.keep_ids = {},
       !.deleted = @ \cup (LiveMessages \ cleanup.keep_ids)]
  /\ UNCHANGED <<message_count, summary_text, messages, pc, ctx_count, llm, ai_response,
                 tokens_used, user_message_id, ai_message_id, queue, cjob, ljob, count0, trace,
                 reached, scheduledFor, enqueued>>
  /\ UNCHANGED notChat

NextChat ==
  \E t \in Turns :
    \/ RetrieveContext(t)
    \/ AnalyzeInput(t)
    \/ AssemblePrompt(t)
    \/ GenerateResponseStage(t)
    \/ SaveUserMessage(t)
    \/ SaveAIMessage(t)
    \/ UpdateMessageCount(t)
    \/ TriggerAsyncTasks(t)
    \/ CheckMemoryCompression(t)
    \/ CompressRead(t)
    \/ CompressSave(t)
    \/ CompressEnqueue(t)
    \/ UpdateLibrarySummary(t)
    \/ CompressRetry(t)

\* the weekly cleanup next to a turn and the compression jobs of the chapter
\* the stages of the turns, with database errors in save_messages
NextPersist ==
  \E t \in Turns :
    \/ RetrieveContext(t)
    \/ AnalyzeInput(t)
    \/ AssemblePrompt(t)
    \/ GenerateResponseStage(t)
    \/ SaveUserMessage(t)
    \/ SaveAIMessage(t)
    \/ UpdateMessageCount(t)
    \/ SaveMessagesRaises(t)
    \/ TriggerAsyncTasks(t)

NextCleanup ==
  \/ \E t \in Turns :
       \/ RetrieveContext(t)
       \/ AnalyzeInput(t)
       \/ AssemblePrompt(t)
       \/ GenerateResponseStage(t)
       \/ SaveUserMessage(t)
       \/ SaveAIMessage(t)
       \/ UpdateMessageCount(t)
       \/ TriggerAsyncTasks(t)
       \/ CheckMemoryCompression(t)
       \/ CompressRead(t)
       \/ CompressSave(t)
       \/ CompressEnqueue(t)
       \/ UpdateLibrarySummary(t)
       \/ CompressRetry(t)
  \/ CleanupRead
  \/ CleanupDelete

\* ------------------------------------------------------------------------
\* Context loader: context_loader.py, chat_graph.py
\* ------------------------------------------------------------------------

MaxLibraries == 2

MaxChapters == 2

\* SaveMessages stops when a chapter has this many messages
MaxMessages == 2

Libraries == 1 .. MaxLibraries

ChapterIds == 1 .. MaxChapters

\* an id no Library or Chapter row has
MissingId == 0

\* profile.get_active_context()['mood'], 'neutral' without a profile
Moods == {"neutral", "stressed", "happy", "sad"}

\* a new chapter of a library
NewChapter(library) == [library |-> library, message_count |-> 0, rows |-> 0]

\* is_new_project with the library filter left out
IsNewProjectAnyLibrary(library_id, rows) ==
  \/ library_id \notin Libraries
  \/ ~ \E c \in DOMAIN rows : rows[c].message_count > 0

\* get_llm_context: Library.DoesNotExist, or no chapter of the library with
\* message_count > 0
IsNewProject(library_id, rows) ==
  \/ library_id \notin Libraries
  \/ ~ \E c \in DOMAIN rows :
         rows[c].library = library_id /\ rows[c].message_count > 0

\* get_llm_context: Chapter.DoesNotExist, or chapter.message_count == 0
IsNewChat(chapter_id, rows) ==
  \/ chapter_id \notin DOMAIN rows
  \/ rows[chapter_id].message_count = 0

\* get_llm_context: library.title, "New Project" on Library.DoesNotExist
ProjectTitle(library_id) ==
  IF library_id \in Libraries THEN "library.title" ELSE "New Project"

\* build_system_instruction: the scenario block, named by its heading
ScenarioInstruction(is_new_project, is_new_chat) ==
  IF is_new_project /\ is_new_chat THEN "COLD START"
  ELSE IF ~is_new_project /\ is_new_chat THEN "NEW CHAPTER"
  ELSE "CONTINUING CONVERSATION"

\* build_system_instruction: the emotional guidance for the mood, if any
EmotionalGuidance(mood) ==
  IF mood \in {"stressed", "anxious", "worried", "overwhelmed"}
    THEN <<"The user seems stressed">>
  ELSE IF mood \in {"excited", "happy", "thrilled", "motivated"}
    THEN <<"The user seems excited">>
  ELSE IF mood \in {"sad", "down", "disappointed", "frustrated"}
    THEN <<"The user seems down">>
  ELSE <<>>

\* build_system_instruction: base_instruction + scenario_instruction +
\* emotional_guidance, as the sequence of its blocks
BuildSystemInstruction(global_context, is_new_project, is_new_chat, project_title) ==
  <<"YOUR ROLE", ScenarioInstruction(is_new_project, is_new_chat)>>
    \o EmotionalGuidance(global_context.mood)

\* get_llm_context: the number of Message rows of the chapter it returns, the
\* last 10; [] on Chapter.DoesNotExist
RecentMessages(chapter_id, rows) ==
  IF chapter_id \notin DOMAIN rows THEN 0
  ELSE IF rows[chapter_id].rows > 10 THEN 10 ELSE rows[chapter_id].rows

\* the context package of get_llm_context for a request: is_new_project as
\* the project query found it, the chat context from the rows the chapter
\* query reads
LLMContext(library_id, chapter_id, mood, is_new_project, rows) ==
  [library_id |-> library_id,
   chapter_id |-> chapter_id,
   project_title |-> ProjectTitle(library_id),
   is_new_project |-> is_new_project,
   is_new_chat |-> IsNewChat(chapter_id, rows),
   recent_messages |-> RecentMessages(chapter_id, rows),
   system_instruction |->
     BuildSystemInstruction([mood |-> mood], is_new_project,
                            IsNewChat(chapter_id, rows), ProjectTitle(library_id))]

\* no get_llm_context call has returned yet
NoContext ==
  [library_id |-> MissingId, chapter_id |-> MissingId, project_title |-> "",
   is_new_project |-> FALSE, is_new_chat |-> FALSE, recent_messages |-> 0,
   system_instruction |-> <<>>]

\* ------------------------------------------------------------------------
\* One turn for the ids of a request: chat_graph.py
\* ------------------------------------------------------------------------

\* process_chat_message: the initial state of a turn for the ids, before the
\* graph's first node
RequestFor(library_id, chapter_id) ==
  [stage |-> "retrieve_context", library_id |-> library_id, chapter_id |-> chapter_id,
   is_new_project |-> FALSE, ai_response |-> <<>>, exception |-> "none"]

\* no process_chat_message call
NoRequest == [RequestFor(MissingId, MissingId) EXCEPT !.stage = "none"]

\* the Chapter row a Message row's chapter_id refers to exists
ChapterExists(chapter_id) == chapter_id \in DOMAIN chapters

\* retrieve_context: get_llm_context for the ids of the request
TurnRetrieveContext ==
  /\ request.stage = "retrieve_context"
  /\ \E mood \in Moods :
       context' = LLMContext(request.library_id, request.chapter_id, mood,
                             IsNewProject(request.library_id, chapters), chapters)
  /\ request' = [request EXCEPT !.stage = "analyze_input"]
  /\ UNCHANGED <<chapters, check_in, norm>>
  /\ UNCHANGED <<chatVars, entVars, profVars>>

\* analyze_input: keyword tests on the user's message
TurnAnalyzeInput ==
  /\ request.stage = "analyze_input"
  /\ request' = [request EXCEPT !.stage = "assemble_prompt"]
  /\ UNCHANGED <<chapters, context, check_in, norm>>
  /\ UNCHANGED <<chatVars, entVars, profVars>>

\* assemble_prompt: the system instruction, the recent messages, the message
TurnAssemblePrompt ==
  /\ request.stage = "assemble_prompt"
  /\ request' = [request EXCEPT !.stage = "generate_response"]
  /\ UNCHANGED <<chapters, context, check_in, norm>>
  /\ UNCHANGED <<chatVars, entVars, profVars>>

\* generate_response: the completion or, when the call raises, the apology
TurnGenerateResponse ==
  /\ request.stage = "generate_response"
  /\ \E outcome \in LLMOutcomes :
       request' = [request EXCEPT !.stage = "save_messages",
                                  !.ai_response = GenerateResponse(outcome).ai_response]
  /\ UNCHANGED <<chapters, context, check_in, norm>>
  /\ UNCHANGED <<chatVars, entVars, profVars>>

\* save_messages: two Message.objects.create(chapter_id=...) and the update of
\* message_count; the first create raises IntegrityError when no Chapter row
\* has the id, and nothing in the graph or in process_chat_message catches it
TurnSaveMessages ==
  /\ request.stage = "save_messages"
  /\ IF ChapterExists(request.chapter_id)
     THEN /\ chapters' = [chapters EXCEPT ![request.chapter_id].rows = @ + 2,
                                          ![request.chapter_id].message_count = @ + 2]
          /\ request' = [request EXCEPT !.stage = "trigger_async_tasks"]
     ELSE /\ request' = [request EXCEPT !.stage = "raised", !.exception = "IntegrityError"]
          /\ UNCHANGED chapters
  /\ UNCHANGED <<context, check_in, norm>>
  /\ UNCHANGED <<chatVars, entVars, profVars>>

\* trigger_async_tasks: the three .delay() calls; the turn returns its response
TurnTriggerAsyncTasks ==
  /\ request.stage = "trigger_async_tasks"
  /\ request' = [request EXCEPT !.stage = "done"]
  /\ UNCHANGED <<chapters, context, check_in, norm>>
  /\ UNCHANGED <<chatVars, entVars, profVars>>

NextTurn ==
  \/ TurnRetrieveContext
  \/ TurnAnalyzeInput
  \/ TurnAssemblePrompt
  \/ TurnGenerateResponse
  \/ TurnSaveMessages
  \/ TurnTriggerAsyncTasks

\* ------------------------------------------------------------------------
\* Proactive engagement: proactive.py
\* ------------------------------------------------------------------------

\* most entries of FriendProfile.important_dates in a checked profile
MaxDates == 2

\* calendar.isleap
IsLeapYear(year) == (year % 4 = 0 /\ year % 100 # 0) \/ year % 400 = 0

DaysInMonth(year, month) ==
  IF month = 2 THEN (IF IsLeapYear(year) THEN 29 ELSE 28)
  ELSE IF month \in {4, 6, 9, 11} THEN 30 ELSE 31

\* date(year, month, day) and datetime.fromisoformat accept the value; they
\* raise ValueError otherwise
IsDate(d) ==
  /\ d.month \in 1 .. 12
  /\ d.day \in 1 .. DaysInMonth(d.year, d.month)

\* the first year of the day count
EpochYear == 2000

RECURSIVE DaysBeforeMonth(_, _)
DaysBeforeMonth(year, month) ==
  IF month = 1 THEN 0
  ELSE DaysBeforeMonth(year, month - 1) + DaysInMonth(year, month - 1)

\* date.toordinal, counted from 1 January of EpochYear
ToOrdinal(d) ==
  365 * (d.year - EpochYear)
    + Cardinality({y \in EpochYear .. (d.year - 1) : IsLeapYear(y)})
    + DaysBeforeMonth(d.year, d.month) + d.day

\* (a - b).days of two dates
DaysBetween(a, b) == ToOrdinal(a) - ToOrdinal(b)

\* what a rule or should_check_in hands back: None, a message with its reason
\* and priority, or an exception
NoMessage == [kind |-> "none", reason |-> "", priority |-> ""]

Message(reason, priority) == [kind |-> "message", reason |-> reason, priority |-> priority]

Raised(exception) == [kind |-> "raised", reason |-> exception, priority |-> ""]

\* _check_important_dates from entry i on
RECURSIVE CheckImportantDates(_, _, _)
CheckImportantDates(important_dates, i, today) ==
  IF i > Len(important_dates) THEN NoMessage
  ELSE
    LET entry_date == important_dates[i].date
        date_type == important_dates[i].type
        years_since == today.year - entry_date.year
        this_year == [year |-> today.year, month |-> entry_date.month, day |-> entry_date.day]
        upcoming ==
          IF ~IsDate(this_year) THEN Raised("ValueError")
          ELSE IF /\ 0 < DaysBetween(this_year, today)
                  /\ DaysBetween(this_year, today) <= 3
                  /\ date_type = "deadline"
            THEN Message("upcoming_deadline", "medium")
          ELSE CheckImportantDates(important_dates, i + 1, today)
    IN IF ~IsDate(entry_date) THEN CheckImportantDates(important_dates, i + 1, today)
       ELSE IF entry_date.month = today.month /\ entry_date.day = today.day
         THEN IF date_type = "birthday" THEN Message("birthday", "high")
              ELSE IF date_type = "loss" /\ years_since > 0
                THEN Message("loss_anniversary", "high")
              ELSE IF date_type = "achievement" /\ years_since > 0
                THEN Message("achievement_anniversary", "medium")
              ELSE upcoming
       ELSE upcoming

DifficultMoods == {"stressed", "anxious", "sad", "overwhelmed", "frustrated"}

\* days_since when the user has no message: Message...first() is None
NeverWrote == -1

\* _check_stress_followup
CheckStressFollowup(emotional_context, days_since) ==
  IF /\ emotional_context.current_mood \in DifficultMoods
     /\ days_since # NeverWrote
     /\ 2 <= days_since /\ days_since <= 7
    THEN IF emotional_context.active_stressors # <<>>
           THEN Message("stress_followup", "high")
           ELSE Message("stress_followup", "medium")
    ELSE NoMessage

\* a goal without 'deadline'
NoDeadline == [year |-> 0, month |-> 0, day |-> 0]

\* _check_goal_deadlines from goal i on; progress in hundredths
RECURSIVE CheckGoalDeadlines(_, _, _)
CheckGoalDeadlines(long_term_goals, i, today) ==
  IF i > Len(long_term_goals) THEN NoMessage
  ELSE
    LET goal == long_term_goals[i]
    IN IF /\ goal.deadline # NoDeadline
          /\ IsDate(goal.deadline)
          /\ 0 < DaysBetween(goal.deadline, today)
          /\ DaysBetween(goal.deadline, today) <= 7
          /\ goal.progress < 80
         THEN Message("goal_deadline", "medium")
         ELSE CheckGoalDeadlines(long_term_goals, i + 1, today)

\* _check_long_absence
CheckLongAbsence(days_since) ==
  IF days_since = NeverWrote THEN NoMessage
  ELSE IF 7 <= days_since /\ days_since <= 14 THEN Message("long_absence", "low")
  ELSE IF 14 < days_since /\ days_since <= 30 THEN Message("very_long_absence", "low")
  ELSE NoMessage

\* should_check_in: None without a profile, else the first rule that returns
\* a message; an exception of a rule leaves the call
ShouldCheckIn(c) ==
  IF ~c.profile THEN NoMessage
  ELSE IF CheckImportantDates(c.important_dates, 1, c.today) # NoMessage
    THEN CheckImportantDates(c.important_dates, 1, c.today)
  ELSE IF CheckStressFollowup(c.emotional_context, c.days_since) # NoMessage
    THEN CheckStressFollowup(c.emotional_context, c.days_since)
  ELSE IF CheckGoalDeadlines(c.long_term_goals, 1, c.today) # NoMessage
    THEN CheckGoalDeadlines(c.long_term_goals, 1, c.today)
  ELSE CheckLongAbsence(c.days_since)

\* timezone.now().date() of the checked calls: 27 February of a common year
\* and of a leap year
Todays == {[year |-> 2025, month |-> 2, day |-> 27], [year |-> 2024, month |-> 2, day |-> 27]}

\* 'date' of the checked entries: 27 and 29 February, 1 March, and a text
\* fromisoformat rejects
EntryDates ==
  {[year |-> 2000, month |-> 2, day |-> 27], [year |-> 2000, month |-> 2, day |-> 29],
   [year |-> 2000, month |-> 3, day |-> 1], [year |-> 2001, month |-> 2, day |-> 29]}

DateEntries == [date : EntryDates, type : {"birthday", "loss", "deadline"}]

ImportantDateLists == UNION {[1 .. n -> DateEntries] : n \in 0 .. MaxDates}

EmotionalContexts ==
  {[current_mood |-> "neutral", active_stressors |-> <<>>],
   [current_mood |-> "stressed", active_stressors |-> <<"work">>],
   [current_mood |-> "sad", active_stressors |-> <<>>]}

\* life_narrative['long_term_goals'] of the checked profiles
GoalLists ==
  {<<>>,
   <<[progress |-> 79, deadline |-> [year |-> 2025, month |-> 3, day |-> 3]]>>,
   <<[progress |-> 80, deadline |-> [year |-> 2025, month |-> 3, day |-> 3]]>>,
   <<[progress |-> 10, deadline |-> NoDeadline]>>}

\* whole days since the user's last message
DaysSince == {NeverWrote, 1, 2, 7, 8, 30, 31}

\* a should_check_in call that has not run; profile says whether the user has
\* a FriendProfile
CheckInOf(has_profile, today, important_dates, emotional_context, long_term_goals, days_since) ==
  [called |-> FALSE, profile |-> has_profile, today |-> today,
   important_dates |-> important_dates, emotional_context |-> emotional_context,
   long_term_goals |-> long_term_goals, days_since |-> days_since, result |-> NoMessage]

\* no should_check_in call
NoCheckIn ==
  CheckInOf(FALSE, [year |-> 2025, month |-> 2, day |-> 27], <<>>,
            [current_mood |-> "neutral", active_stressors |-> <<>>], <<>>, NeverWrote)

\* should_proactively_check_in: ProactiveEngagement(user_id).should_check_in()
ShouldProactivelyCheckIn ==
  /\ ~check_in.called
  /\ check_in' = [check_in EXCEPT !.called = TRUE, !.result = ShouldCheckIn(check_in)]
  /\ UNCHANGED <<chapters, context, request, norm>>
  /\ UNCHANGED <<chatVars, entVars, profVars>>

NextCheckIn == ShouldProactivelyCheckIn

\* resolve, _create_new: normalized_name = self._normalize_name(entity_name)
\* is stored as the entity's name_normalized
NormalizeMention ==
  /\ norm.at = "mention"
  /\ norm' = [norm EXCEPT !.at = "stored",
                          !.name_normalized = NormalizeName(norm.entity_name)]
  /\ UNCHANGED <<chapters, context, check_in, request>>
  /\ UNCHANGED <<chatVars, entVars, profVars>>

\* resolve of a mention equal to the stored key: _normalize_name of the key,
\* which _exact_match compares with name_normalized
NormalizeKey ==
  /\ norm.at = "stored"
  /\ norm' = [norm EXCEPT !.at = "matched",
                          !.key_normalized = NormalizeName(norm.name_normalized)]
  /\ UNCHANGED <<chapters, context, check_in, request>>
  /\ UNCHANGED <<chatVars, entVars, profVars>>

NextNormalize == NormalizeMention \/ NormalizeKey

InitSvcIdle ==
  /\ chapters = [c \in ChapterIds |-> NewChapter(1)]
  /\ context = NoContext
  /\ check_in = NoCheckIn
  /\ norm = NoMention
  /\ request = NoRequest

\* get_llm_context, section 2: the Library query and the query for chapters
\* of the library with message_count > 0
ReadProjectContext(library_id, chapter_id) ==
  /\ request.stage = "none"
  /\ request' = [RequestFor(library_id, chapter_id) EXCEPT
                   !.stage = "chat_context",
                   !.is_new_project = IsNewProject(library_id, chapters)]
  /\ UNCHANGED <<chapters, context, check_in, norm>>
  /\ UNCHANGED <<chatVars, entVars, profVars>>

\* get_llm_context, section 3 to the end: the Chapter query, the Message
\* query and the package with its system instruction
ReadChatContext ==
  /\ request.stage = "chat_context"
  /\ \E mood \in Moods :
       context' = LLMContext(request.library_id, request.chapter_id, mood,
                             request.is_new_project, chapters)
  /\ request' = NoRequest
  /\ UNCHANGED <<chapters, check_in, norm>>
  /\ UNCHANGED <<chatVars, entVars, profVars>>

\* save_messages of a turn in the chapter: the user's and the AI's Message
\* rows, then message_count = F('message_count') + 2
SaveMessagesIn(chapter_id) ==
  /\ chapters[chapter_id].message_count < MaxMessages
  /\ chapters' = [chapters EXCEPT ![chapter_id].rows = @ + 2,
                                  ![chapter_id].message_count = @ + 2]
  /\ UNCHANGED <<context, check_in, request, norm>>
  /\ UNCHANGED <<chatVars, entVars, profVars>>

NextContext ==
  \/ \E library_id \in Libraries \cup {MissingId}, chapter_id \in ChapterIds \cup {MissingId} :
       ReadProjectContext(library_id, chapter_id)
  \/ ReadChatContext
  \/ \E chapter_id \in ChapterIds : SaveMessagesIn(chapter_id)

\* ------------------------------------------------------------------------
\* Specifications
\* ------------------------------------------------------------------------

\* the other tables at rest: no entity, no profile, no job
InitEntIdle == InitEntAt(NoEntities)

InitProfIdle == InitProfAt(NoProfile, [d \in Deliveries |-> QueuedJob(PlainExchange(d))])

InitChatIdle == InitChatAt(0)

\* a chapter two turns short of, or one turn short of, a multiple of 20 messages
InitChat ==
  /\ \E n \in {2 * (InitTurns - 1), 2 * InitTurns} : InitChatAt(n)
  /\ InitEntIdle
  /\ InitProfIdle
  /\ InitSvcIdle

\* concurrent chat turns on one chapter and their compression jobs
SpecChat == InitChat /\ [][NextChat]_vars

\* concurrent chat turns on one chapter whose database statements can fail
SpecPersist == InitChat /\ [][NextPersist]_vars

InitResolve ==
  /\ \E store \in InitStores : InitEntAt(store)
  /\ InitChatIdle
  /\ InitProfIdle
  /\ InitSvcIdle

\* resolve calls issued one after the other against one user's entities
SpecResolve == InitResolve /\ [][NextResolve]_vars

InitResolveConc ==
  /\ InitEntIdle
  /\ InitChatIdle
  /\ InitProfIdle
  /\ InitSvcIdle

\* resolve calls of two knowledge jobs of one user running concurrently
SpecResolveConc == InitResolveConc /\ [][NextResolveConc]_vars

InitKnowledge ==
  /\ \E store \in InitStores : InitEntAt(store)
  /\ \E row \in InitProfiles : InitProfAt(row, [d \in Deliveries |-> QueuedJob(KnowledgeExchange)])
  /\ InitChatAt(2)
  /\ InitSvcIdle

\* one knowledge job delivered more than once, one delivery after the other
SpecKnowledge == InitKnowledge /\ [][NextKnowledge]_vars

InitProfile ==
  /\ InitEntIdle
  /\ \E row \in InitProfiles :
       InitProfAt(row, [d \in Deliveries |-> AtUpdateProfile(ProfileExchanges[d])])
  /\ InitChatIdle
  /\ InitSvcIdle

\* the jobs of concurrent chat turns that write the user's FriendProfile
SpecProfile == InitProfile /\ [][NextProfile]_vars

\* a chapter of 2 * (InitTurns + 1) messages whose last turn has enqueued a
\* compress_chapter_memory job, one knowledge job and the narrative job of a
\* user with a profile, all about to run
InitJobs ==
  /\ InitChatWith(2 * (InitTurns + 1), "done",
                  [t \in Turns |->
                     IF t = 1 THEN [NoCompressJob EXCEPT !.pc = "queued",
                                                         !.at = 2 * (InitTurns + 1)]
                              ELSE NoCompressJob])
  /\ InitEntIdle
  /\ InitProfAt(Exchanged(InitExchanges),
                [d \in Deliveries |->
                   IF d = 1 THEN QueuedJob(PlainExchange(d))
                            ELSE [QueuedJob(PlainExchange(d)) EXCEPT !.pc = "done"]])
  /\ InitSvcIdle

NextJobs ==
  \/ \E t \in Turns :
       \/ CompressRead(t)
       \/ CompressSave(t)
       \/ CompressEnqueue(t)
       \/ UpdateLibrarySummary(t)
       \/ CompressRetry(t)
  \/ \E d \in Deliveries :
       \/ Deliver(d)
       \/ ExtractEntities(d)
       \/ AnalyzeExchange(d)
       \/ KnowledgeRetry(d)
       \/ ResolveAndSaveEntities(d)
       \/ GetOrCreateProfile(d)
       \/ SaveProfile(d)
       \/ UpdateProfileFails(d)
  \/ NarrativeRead
  \/ Synthesize
  \/ NarrativeRetry
  \/ SaveLifeNarrative

\* the background jobs of one turn with their retries; a worker that has a
\* job to run runs it
SpecJobs == InitJobs /\ [][NextJobs]_vars /\ WF_vars(NextJobs)

\* the chapters of the user's libraries, no message exchanged yet
InitContext ==
  /\ \E library \in [ChapterIds -> Libraries] :
       chapters = [c \in ChapterIds |-> NewChapter(library[c])]
  /\ context = NoContext
  /\ check_in = NoCheckIn
  /\ norm = NoMention
  /\ request = NoRequest
  /\ InitChatIdle
  /\ InitEntIdle
  /\ InitProfIdle

\* chat turns in the chapters of the user's libraries: each loads its context
\* and later saves its two messages
SpecContext == InitContext /\ [][NextContext]_vars

\* a user without a profile, or with one of the checked profiles and message
\* histories, on one of the checked days
InitCheckIn ==
  /\ \E today \in Todays, days_since \in DaysSince :
       \/ check_in = CheckInOf(FALSE, today, <<>>,
                               [current_mood |-> "neutral", active_stressors |-> <<>>],
                               <<>>, days_since)
       \/ \E important_dates \in ImportantDateLists, emotional_context \in EmotionalContexts,
             long_term_goals \in GoalLists :
            check_in = CheckInOf(TRUE, today, important_dates, emotional_context,
                                 long_term_goals, days_since)
  /\ chapters = [c \in ChapterIds |-> NewChapter(1)]
  /\ context = NoContext
  /\ request = NoRequest
  /\ norm = NoMention
  /\ InitChatIdle
  /\ InitEntIdle
  /\ InitProfIdle

\* one should_check_in call for every checked profile, history and day
SpecCheckIn == InitCheckIn /\ [][NextCheckIn]_vars

\* a mention of up to MaxWords words
InitNormalize ==
  /\ \E n \in 1 .. MaxWords : \E entity_name \in MentionsOfWords(n) :
       norm = MentionOf(entity_name)
  /\ chapters = [c \in ChapterIds |-> NewChapter(1)]
  /\ context = NoContext
  /\ check_in = NoCheckIn
  /\ request = NoRequest
  /\ InitChatIdle
  /\ InitEntIdle
  /\ InitProfIdle

\* _normalize_name applied to a mention and then to the key it gave
SpecNormalize == InitNormalize /\ [][NextNormalize]_vars

\* chapters with and without an earlier turn; a request for ids that may have
\* no row
InitTurn ==
  /\ \E library \in [ChapterIds -> Libraries], count \in [ChapterIds -> {0, 2}] :
       chapters = [c \in ChapterIds |->
                     [library |-> library[c], message_count |-> count[c], rows |-> count[c]]]
  /\ \E library_id \in Libraries \cup {MissingId}, chapter_id \in ChapterIds \cup {MissingId} :
       request = RequestFor(library_id, chapter_id)
  /\ context = NoContext
  /\ check_in = NoCheckIn
  /\ norm = NoMention
  /\ InitChatIdle
  /\ InitEntIdle
  /\ InitProfIdle

\* one turn of the chat graph for every request
SpecTurn == InitTurn /\ [][NextTurn]_vars

\* message_count values below n at which a compression was scheduled
EarlierCompressions(n) == {c \in 1 .. (n - 1) : ShouldCompress(c)}

\* a chapter with as many messages as the cleanup keeps, or with one turn
\* more: each earlier compression ran at its count and either wrote its window
\* into the summary or used up its retries; the compression scheduled at this
\* count is queued; one more turn starts
InitCleanup ==
  /\ count0 \in {KeepNewest, KeepNewest + 2}
  /\ message_count = count0
  /\ messages = InitMessages(count0)
  /\ \E succeeded \in SUBSET EarlierCompressions(count0) :
       summary_text = UNION {MessagesToCompress(1 .. c) : c \in succeeded}
  /\ pc = [t \in Turns |-> IF t = 1 THEN "retrieve_context" ELSE "done"]
  /\ ctx_count = [t \in Turns |-> 0]
  /\ llm = [t \in Turns |-> "none"]
  /\ ai_response = [t \in Turns |-> ""]
  /\ tokens_used = [t \in Turns |-> 0]
  /\ user_message_id = [t \in Turns |-> 0]
  /\ ai_message_id = [t \in Turns |-> 0]
  /\ queue = {}
  /\ cjob = [t \in Turns |->
              IF t = MaxTurns /\ ShouldCompress(count0)
                THEN [NoCompressJob EXCEPT !.pc = "queued", !.at = count0]
                ELSE NoCompressJob]
  /\ ljob = [t \in Turns |-> NoLibraryJob]
  /\ cleanup = NoCleanup
  /\ trace = [t \in Turns |-> <<>>]
  /\ reached = {}
  /\ scheduledFor = {}
  /\ enqueued = {}
  /\ InitEntIdle
  /\ InitProfIdle
  /\ InitSvcIdle

\* a profile one mood change short of a full mood history, or with a full one
InitMood ==
  /\ InitEntIdle
  /\ \E n \in {InitMoodChanges, InitMoodChanges + 1} :
       InitProfAt(MoodyProfile(n), [d \in Deliveries |-> QueuedJob(PlainExchange(d))])
  /\ InitChatIdle
  /\ InitSvcIdle

\* profile updates of one user, one after the other
SpecMood == InitMood /\ [][NextMood]_vars

\* a user whose profile was just created by _get_or_create_profile
InitTrend ==
  /\ InitEntIdle
  /\ InitProfAt(ProfilerDefaults, [d \in Deliveries |-> QueuedJob(PlainExchange(d))])
  /\ InitChatIdle
  /\ InitSvcIdle

\* the first profile updates of a user, one after the other
SpecTrend == InitTrend /\ [][NextTrend]_vars

\* a turn, the compression jobs and cleanup_compressed_messages on one chapter
SpecCleanup == InitCleanup /\ [][NextCleanup]_vars

\* ------------------------------------------------------------------------
\* Properties of SpecChat
\* ------------------------------------------------------------------------

\* turns whose persist stage (save_messages) has completed
Persisted == {t \in Turns : pc[t] \in {"trigger_async_tasks", "done"}}

\* C2: for any number k of turns on the chapter whose persist stage completed,
\* in any interleaving, message_count has grown by exactly 2k.
C2_NoLostIncrement ==
  message_count = count0 + 2 * Cardinality(Persisted)

\* two turns read the same counter value in retrieve_context (they overlap)
\* and both completed their persist stage
C2_Witness ==
  /\ Persisted = Turns
  /\ \A t \in Turns : ctx_count[t] = count0
  /\ message_count = count0 + 2 * MaxTurns

\* no turn is running and no compression check is pending
ChatQuiescent ==
  /\ \A t \in Turns : pc[t] = "done"
  /\ \A t \in Turns : [task |-> "check_memory_compression", by |-> t] \notin queue

\* C3: compression is scheduled if and only if message_count % 20 == 0: every
\* persist that brings message_count to a multiple of 20 leads to a
\* compress_chapter_memory job scheduled for that count (once the checks have
\* run), and no compression is scheduled for another count.
C3_CompressionIffMultipleOf20 ==
  /\ \A c \in scheduledFor : c % 20 = 0
  /\ ChatQuiescent => reached \subseteq scheduledFor

\* C4: two compress_chapter_memory jobs scheduled at the same message_count do
\* not double-compress: the messages the second folds into the summary are
\* disjoint from those the first folded in.
C4_NoDoubleCompress ==
  \A t1, t2 \in Turns :
    ( /\ t1 # t2
      /\ cjob[t1].pc = "done"
      /\ cjob[t2].pc = "done"
      /\ cjob[t1].at = cjob[t2].at )
    => cjob[t1].msgs \cap cjob[t2].msgs = {}

\* C10: if the completion-service call of generate_response fails, the turn
\* does not raise: the response is the apology, the recorded token usage is 0,
\* and the turn has written both messages, added 2 to message_count and
\* enqueued its background jobs when it returns.
C10_FailedCompletionStillCompletes ==
  \A t \in Turns :
    llm[t] = "error" =>
      /\ pc[t] # "raised"
      /\ ai_response[t] = Apology
      /\ tokens_used[t] = 0
      /\ pc[t] = "done" =>
           /\ user_message_id[t] \in DOMAIN messages
           /\ messages[user_message_id[t]] =
                [sender |-> "USER", content |-> "user", turn |-> t]
           /\ ai_message_id[t] \in DOMAIN messages
           /\ messages[ai_message_id[t]] =
                [sender |-> "AI", content |-> Apology, turn |-> t]
           /\ t \in Persisted
           /\ message_count = count0 + 2 * Cardinality(Persisted)
           /\ TurnJobs(t) \subseteq enqueued

\* a turn whose completion call failed has returned
C10_Witness ==
  \E t \in Turns :
    /\ llm[t] = "error"
    /\ pc[t] = "done"
    /\ messages[ai_message_id[t]].content = Apology

\* what a turn does from its first node to its last: the six nodes in the
\* order of the graph's edges, one completion call, the two Message rows and
\* the counter update, then the three .delay() calls
TurnTrace ==
  << "retrieve_context", "analyze_input", "assemble_prompt", "generate_response",
     "completions.create", "save_messages", "create USER", "create AI",
     "update message_count", "trigger_async_tasks",
     "process_knowledge_extraction.delay", "check_memory_compression.delay",
     "update_session_primer.delay" >>

IsPrefix(s1, s2) == Len(s1) <= Len(s2) /\ SubSeq(s2, 1, Len(s1)) = s1

\* C27: every turn runs the six stages once each, in the order
\* retrieve_context, analyze_input, assemble_prompt, generate_response,
\* save_messages, trigger_async_tasks, with one completion call, and enqueues
\* one knowledge-extraction, one compression-check and one session-primer job,
\* all of them only after both messages are written and message_count is
\* incremented.
C27_SixStagesOnceInOrder ==
  \A t \in Turns :
    /\ IsPrefix(trace[t], TurnTrace)
    /\ pc[t] = "done" => trace[t] = TurnTrace
    /\ TurnJobs(t) \cap enqueued # {} =>
         /\ TurnJobs(t) \subseteq enqueued
         /\ user_message_id[t] \in DOMAIN messages
         /\ ai_message_id[t] \in DOMAIN messages
         /\ messages[user_message_id[t]].turn = t
         /\ messages[ai_message_id[t]].turn = t
         /\ message_count >= count0 + 2
         /\ message_count = count0 + 2 * Cardinality(Persisted)

\* two overlapping turns have both returned, one of them with the apology
C27_Witness ==
  /\ \A t \in Turns : pc[t] = "done" /\ trace[t] = TurnTrace /\ ctx_count[t] = count0
  /\ \E t \in Turns : llm[t] = "error"
  /\ \E t \in Turns : llm[t] = "ok"

\* the update_library_summary job the compression of turn t enqueues
LibraryJob(t) == [task |-> "update_library_summary", by |-> t]

\* C22: the Level 2 job is enqueued by a compression only after that
\* compression wrote the chapter summary, and it reads the summary after that
\* write; a compression attempt that fails before its write enqueues no
\* Level 2 job.
C22_Level2AfterSummaryWrite ==
  [][\A t \in Turns :
       /\ (LibraryJob(t) \in enqueued' /\ LibraryJob(t) \notin enqueued) =>
            /\ cjob[t].pc = "saved"
            /\ cjob[t].msgs # {}
       /\ (cjob[t].pc = "read" /\ cjob'[t].pc \in {"retry", "failed"}) =>
            /\ enqueued' = enqueued
            /\ queue' = queue
            /\ summary_text' = summary_text
       /\ (ljob[t].pc # "done" /\ ljob'[t].pc = "done") =>
            /\ cjob[t].pc = "done"
            /\ ljob'[t].chapter_summary = summary_text
            /\ ljob'[t].chapter_summary # {}
     ]_vars

\* a compression whose first attempt failed wrote the summary on a later
\* attempt, and the Level 2 job it enqueued has read that summary
C22_Witness ==
  \E t \in Turns :
    /\ cjob[t].retries > 0
    /\ cjob[t].pc = "done"
    /\ ljob[t].pc = "done"
    /\ cjob[t].msgs \subseteq ljob[t].chapter_summary

\* turns whose compression wrote a summary
Compressed == {t \in Turns : cjob[t].pc \in {"saved", "done"} /\ cjob[t].msgs # {}}

\* the messages older than the 10 most recent when the compression of turn t
\* read its window: the ids up to the newest id of the window
OlderThanRecent(t) == {i \in DOMAIN messages : \E j \in cjob[t].msgs : i <= j}

\* C23: each compression takes only messages that are not summarized yet: no
\* message is given to two successful compressions, and no message older than
\* the 10 most recent at compression time is left out of all compressions.
C23_EachMessageCompressedOnce ==
  /\ \A t1, t2 \in Compressed : t1 # t2 => cjob[t1].msgs \cap cjob[t2].msgs = {}
  /\ \A t \in Compressed :
       OlderThanRecent(t) \subseteq UNION {cjob[u].msgs : u \in Compressed}

\* ------------------------------------------------------------------------
\* Properties of SpecResolve
\* ------------------------------------------------------------------------

\* the importance an entity has after n mentions, in hundredths:
\* min(1.0, 0.5 + 0.05 * (n - 1))
ImportanceAfter(n) == Min(100, 50 + 5 * (n - 1))

C5_CountAndImportance ==
  \A i \in DOMAIN entities :
    /\ entities[i].mention_count = resolved_to[i]
    /\ entities[i].importance_score = ImportanceAfter(resolved_to[i])
    /\ entities[i].importance_score <= 100

C5_ImportanceNeverDecreases ==
  \A i \in DOMAIN entities :
    entities'[i].importance_score >= entities[i].importance_score

WithinThreshold(store, in) ==
  {i \in DOMAIN store :
     /\ store[i].entity_type = in.entity_type
     /\ \/ Ratio(NormalizeName(in.entity_name), store[i].name_normalized)
             >= SIMILARITY_THRESHOLD
        \/ \E k \in DOMAIN store[i].aliases :
             Ratio(NormalizeName(in.entity_name), Lower(store[i].aliases[k]))
               >= SIMILARITY_THRESHOLD}

\* C6: a mention whose normalized form has similarity >= 85 to the normalized
\* name or an alias of an existing entity of the same type resolves to such an
\* entity with created = False, and no entity is created.
C6_AtThresholdMatches ==
  (last_resolve.called /\ WithinThreshold(last_resolve.before, last_resolve.in) # {})
    => /\ ~last_resolve.created
       /\ last_resolve.entity \in WithinThreshold(last_resolve.before, last_resolve.in)
       /\ Len(entities) = Len(last_resolve.before)

\* C7: a resolve with no exact, fuzzy-name or fuzzy-alias hit returns
\* created = True and adds one entity whose aliases are exactly the mention,
\* with importance 0.5 and mention_count 1; the other entities are unchanged.
C7_NewNameCreates ==
  LET in == last_resolve.in
      before == last_resolve.before
      normalized_name == NormalizeName(in.entity_name)
  IN (/\ last_resolve.called
      /\ ExactMatch(before, normalized_name, in.entity_type) = 0
      /\ FuzzyMatchName(before, normalized_name, in.entity_type) = 0
      /\ FuzzyMatchAliases(before, normalized_name, in.entity_type) = 0)
       => /\ last_resolve.created
          /\ last_resolve.entity = Len(before) + 1
          /\ Len(entities) = Len(before) + 1
          /\ SubSeq(entities, 1, Len(before)) = before
          /\ entities[last_resolve.entity].aliases = <<in.entity_name>>
          /\ entities[last_resolve.entity].importance_score = 50
          /\ entities[last_resolve.entity].mention_count = 1

\* a mention with a prefix was resolved against other entities and created one
C7_Witness ==
  /\ last_resolve.called
  /\ last_resolve.created
  /\ last_resolve.before # <<>>
  /\ NormalizeName(last_resolve.in.entity_name) # Lower(last_resolve.in.entity_name)

\* C25: after a resolve call that matched an entity (exact, fuzzy on the name
\* or fuzzy on an alias) the mention name is one of the entity's aliases, up
\* to case, and no two aliases of the entity are equal up to case.
C25_MentionBecomesAlias ==
  (last_resolve.called /\ ~last_resolve.created) =>
    LET aliases == entities[last_resolve.entity].aliases IN
      /\ \E k \in DOMAIN aliases : Lower(aliases[k]) = Lower(last_resolve.in.entity_name)
      /\ \A j, k \in DOMAIN aliases : Lower(aliases[j]) = Lower(aliases[k]) => j = k

\* C26: after any sequence of resolve calls, with facts of any length, the
\* summary of every entity has at most 500 characters.
C26_SummaryAtMost500 ==
  \A i \in DOMAIN entities : SummaryLen(entities[i].summary) <= 500

\* ------------------------------------------------------------------------
\* Properties of SpecResolveConc
\* ------------------------------------------------------------------------

\* C8: no two Entity rows of the user share (normalized name, type), also
\* when the resolve calls of different knowledge jobs run concurrently.
C8_UniqueEntities ==
  \A i, j \in DOMAIN entities :
    (/\ entities[i].name_normalized = entities[j].name_normalized
     /\ entities[i].entity_type = entities[j].entity_type) => i = j

\* two jobs found no entity for one name, and the insert of the second one
\* was refused
C8_Witness ==
  \E p \in Procs :
    /\ proc[p].pc = "idle"
    /\ "raised" \in DOMAIN proc[p]
    /\ proc[p].raised
    /\ Len(entities) >= 1

\* the mention_count of all the user's entities together
RECURSIVE MentionCountSum(_)
MentionCountSum(store) ==
  IF store = <<>> THEN 0 ELSE Head(store).mention_count + MentionCountSum(Tail(store))

\* C34: mention_count stays accurate under concurrent jobs: in every
\* interleaving of the resolve calls of concurrently running knowledge jobs
\* each entity's mention_count is the number of resolve calls that named it,
\* also when two jobs both first-mention one brand-new name; so when no call
\* is under way, the counts of the entities add up to the number of calls.
C34_MentionCountAccurate ==
  (\A p \in Procs : proc[p].pc = "idle") => MentionCountSum(entities) = nres

\* ------------------------------------------------------------------------
\* Properties of SpecKnowledge
\* ------------------------------------------------------------------------

\* the EntityMention rows of a message
MentionsOf(rows, message) == {k \in DOMAIN rows : rows[k].message = message}

\* C9: a second delivery of the knowledge job of one exchange increases no
\* entity's mention_count or importance_score, nor the number of
\* EntityMention rows of the message, nor relationship_metrics.total_messages.
C9_RedeliveryChangesNothing ==
  (after_first.taken /\ kjob[2].pc = "done")
    => /\ \A i \in DOMAIN after_first.entities :
            /\ entities[i].mention_count <= after_first.entities[i].mention_count
            /\ entities[i].importance_score <= after_first.entities[i].importance_score
       /\ Cardinality(MentionsOf(entity_mentions, kjob[2].exchange.message))
            <= Cardinality(MentionsOf(after_first.entity_mentions,
                                      kjob[2].exchange.message))
       /\ profile.relationship_metrics.total_messages
            <= after_first.profile.relationship_metrics.total_messages

\* the extracted items that carry a non-empty fact
ItemsWithFact(extracted_entities) ==
  {k \in DOMAIN extracted_entities : extracted_entities[k].fact # ""}

\* C29: resolve_and_save_entities records one EntityMention for every
\* extracted item with a non-empty fact: after a batch without store failure
\* the number of mentions it wrote is the number of such items, whatever
\* their other fields are.
C29_MentionForEveryFact ==
  \A d \in Deliveries :
    (kjob[d].pc \in {"update_profile", "analyze_and_update", "done"} /\ kjob[d].failed_at = 0)
      => kjob[d].entities_saved = Cardinality(ItemsWithFact(kjob[d].extracted_entities))

\* the completion of extract_entities returned text that json.loads rejects,
\* or a JSON value that is no list
Unparsed == {"malformed", "not_array"}

C11_NothingExtracted ==
  /\ messages = InitMessages(count0)
  /\ \A d \in Deliveries :
       (kjob[d].llm \in Unparsed /\ kjob[d].pc # "extract_entities")
         => /\ kjob[d].extracted_entities = <<>>
            /\ \A i \in DOMAIN kjob[d].processing_errors :
                 kjob[d].processing_errors[i] = "update_profile"
            /\ kjob[d].entities_saved = 0
            /\ kjob[d].entities_created = 0

C11_NothingSaved ==
  \A d \in Deliveries :
    (kjob[d].llm \in Unparsed /\ kjob[d].pc = "resolve_and_save"
       /\ kjob'[d].pc # "resolve_and_save")
      => /\ kjob'[d].pc = "update_profile"
         /\ entities' = entities
         /\ entity_mentions' = entity_mentions
         /\ messages' = messages

\* C11: when the extraction output is no JSON array, the knowledge job saves no
\* entity and no mention, raises nothing (it goes on to update_profile, and
\* neither extraction nor saving adds an error), and the messages the turn
\* persisted are unchanged.
C11_UnparsedExtractionSavesNothing ==
  [](C11_NothingExtracted) /\ [][C11_NothingSaved]_vars

\* a delivery whose extraction returned JSON that is no array ran to its end,
\* with entities in the store and the messages of the turn persisted
C11_Witness ==
  \E d \in Deliveries :
    /\ kjob[d].llm = "not_array"
    /\ kjob[d].pc = "done"
    /\ entities # <<>>
    /\ messages # <<>>

\* C12: a store failure while the knowledge job resolves an entity or records
\* its mention is handed to the retry mechanism: the job does not go on and
\* is not reported as completed.
C12_StoreFailureIsRetried ==
  \A d \in Deliveries :
    kjob[d].failed_at # 0
      => kjob[d].pc \notin {"update_profile", "analyze_and_update", "done"}

\* C13: a failure on one extracted item does not abort the others: every
\* other named item of the batch is resolved and recorded, and the error is in
\* the error list.
C13_OtherItemsStillSaved ==
  \A d \in Deliveries :
    kjob[d].failed_at # 0
      => /\ kjob[d].processed
              = NamedItems(kjob[d].extracted_entities) \ {kjob[d].failed_at}
         /\ kjob[d].processing_errors # <<>>

\* C14: when the completion call of extract_entities raises, the job is
\* retried: the attempt whose call failed does not go on to save and finish.
C14_FailedCallIsRetried ==
  \A d \in Deliveries :
    kjob[d].llm = "error"
      => kjob[d].pc \notin {"resolve_and_save", "update_profile",
                            "analyze_and_update", "done"}

\* ------------------------------------------------------------------------
\* Properties of SpecProfile
\* ------------------------------------------------------------------------

\* C1: no write of the FriendProfile by update_profile, update_session_primer
\* or the life-narrative save removes a member of
\* relationship_metrics.achieved_milestones.
C1_MilestonesNeverLost ==
  [][(profile.exists /\ profile'.exists)
       => profile.relationship_metrics.achieved_milestones
            \subseteq profile'.relationship_metrics.achieved_milestones]_vars

\* C16: when the output of the lifetime narrative synthesis is malformed (text
\* that is no JSON, or JSON that is no narrative object), the save of the job
\* leaves the stored life_narrative as it was before the job.
C16_MalformedKeepsNarrative ==
  [][(njob.pc = "save" /\ njob'.pc = "done" /\ njob.llm \in {"malformed", "not_object"})
       => profile'.life_narrative = njob.before]_vars

\* C17: the save of update_session_primer changes only next_session_primer:
\* the emotional_context, relationship_metrics and life_narrative that other
\* jobs committed since the primer job read the row are still stored after it.
C17_PrimerSavesOnlyPrimer ==
  [][\A q \in PrimerJobs :
       (pjob[q].pc = "completion" /\ pjob'[q].pc = "done")
         => /\ profile'.relationship_metrics = profile.relationship_metrics
            /\ profile'.current_mood = profile.current_mood
            /\ profile'.life_narrative = profile.life_narrative]_vars

\* C38: after any run of the life-narrative job, whatever text the completion
\* returned, the stored life_narrative is a JSON object, which the readers of
\* its keys can read.
C38_NarrativeIsObject ==
  njob.pc = "done" => profile.life_narrative # NotAnObject

\* the knowledge job of delivery d saves its profile update in this step
SavesProfileUpdate(d) ==
  /\ kjob[d].pc = "analyze_and_update"
  /\ kjob'[d].pc = "done"
  /\ kjob'[d].processing_errors = kjob[d].processing_errors

\* C33: for two knowledge-pipeline profile updates of one user in any
\* interleaving neither loses its own update: the save of each adds its 2
\* messages to the stored relationship_metrics.total_messages (4 after both),
\* adds the fixed trust increment of an exchange with an emotional-disclosure
\* keyword (capped at 1.0), and never decreases the stored trust_level;
\* checked while no session-primer job has written the profile.
C33_NoLostProfileUpdate ==
  [][\A d \in Deliveries :
       ( /\ SavesProfileUpdate(d)
         /\ \A q \in PrimerJobs : pjob[q].pc = "queued" )
       => /\ Get(profile'.relationship_metrics, "total_messages", 0)
               = Get(profile.relationship_metrics, "total_messages", 0) + 2
          /\ Get(profile'.relationship_metrics, "trust_level", 30)
               >= Get(profile.relationship_metrics, "trust_level", 30)
     ]_vars

\* the moods an earlier exchange can have left when the knowledge job of
\* exchange d updates the profile: the mood of the profile at the start, or
\* the emotion of another exchange; the profile the job read counts the
\* messages of the exchanges before it
MoodsLeftBefore(d) ==
  {"neutral"} \cup {kjob[e].exchange.emotion : e \in Deliveries \ {d}}

\* C30: every mood change is appended to the mood history: when the emotion
\* of an exchange differs from the current_mood the previous exchange left,
\* the profile update of its knowledge job leaves an entry for this emotion
\* last in mood_history, in every order of the exchange's knowledge job and
\* session-primer job.
C30_MoodChangeAppended ==
  [][\A d \in Deliveries :
       ( /\ kjob[d].pc = "analyze_and_update"
         /\ kjob'[d].pc = "done"
         /\ kjob'[d].processing_errors = kjob[d].processing_errors
         /\ kjob[d].profile.relationship_metrics.total_messages > 0
         /\ kjob[d].detected_emotion \notin MoodsLeftBefore(d) )
       => /\ profile'.mood_history # <<>>
          /\ profile'.mood_history[Len(profile'.mood_history)].to = kjob[d].detected_emotion
     ]_vars

\* ------------------------------------------------------------------------
\* Properties of SpecJobs
\* ------------------------------------------------------------------------

\* no job has been retried more often than its budget, and the turn's messages
\* are the ones it persisted
C15_RetriesWithinBudget ==
  /\ \A d \in Deliveries : kjob[d].retries <= KnowledgeMaxRetries
  /\ \A t \in Turns : cjob[t].retries <= CompressMaxRetries
  /\ njob.retries <= NarrativeMaxRetries
  /\ messages = InitMessages(count0)
  /\ \A t \in Turns : pc[t] = "done"

\* every job has ended: it finished, or it was dropped
C15_AllJobsEnded ==
  /\ \A d \in Deliveries : kjob[d].pc \in {"done", "failed"}
  /\ \A t \in Turns : cjob[t].pc \in {"none", "done", "failed"}
  /\ njob.pc \in {"done", "failed"}

\* C15: every background job terminates: it is attempted at most 1 + its retry
\* budget times (knowledge extraction 3, chapter compression 3, narrative
\* synthesis 2 retries) and is then dropped, and exhaustion leaves the turn's
\* result as it was.
C15_JobsTerminate ==
  [](C15_RetriesWithinBudget) /\ <>[](C15_AllJobsEnded)

\* every attempt of the three jobs failed: each was dropped with its budget used
C15_Witness ==
  /\ kjob[1].pc = "failed" /\ kjob[1].retries = KnowledgeMaxRetries
  /\ cjob[1].pc = "failed" /\ cjob[1].retries = CompressMaxRetries
  /\ njob.pc = "failed" /\ njob.retries = NarrativeMaxRetries
  /\ messages # <<>>

\* ------------------------------------------------------------------------
\* Properties of SpecContext
\* ------------------------------------------------------------------------

\* the blocks of the system instruction of the context package
InstructionBlocks(package) ==
  {package.system_instruction[i] : i \in DOMAIN package.system_instruction}

\* the request is the first message ever sent in its project and its chapter:
\* the chapter is one of the library's, and no chapter of the library has a
\* Message row
FirstEverMessage(library_id, chapter_id) ==
  /\ library_id \in Libraries
  /\ chapter_id \in ChapterIds
  /\ chapters[chapter_id].library = library_id
  /\ \A c \in ChapterIds : chapters[c].library = library_id => chapters[c].rows = 0

\* C18: for the first message ever sent in a project none of whose chapters
\* has exchanged a message, in a chapter without messages, the context package
\* has is_new_project and is_new_chat true and its system instruction holds
\* the cold-start block and neither the new-chapter nor the continuing block.
C18_FirstMessageIsColdStart ==
  [][(context' # context /\ FirstEverMessage(context'.library_id, context'.chapter_id))
       => /\ context'.is_new_project
          /\ context'.is_new_chat
          /\ "COLD START" \in InstructionBlocks(context')
          /\ "NEW CHAPTER" \notin InstructionBlocks(context')
          /\ "CONTINUING CONVERSATION" \notin InstructionBlocks(context')]_vars

\* the first message of a new project was classified as a cold start while
\* another project of the user already holds messages
C18_Witness ==
  /\ FirstEverMessage(context.library_id, context.chapter_id)
  /\ context.is_new_project /\ context.is_new_chat
  /\ "COLD START" \in InstructionBlocks(context)
  /\ \E c \in ChapterIds : chapters[c].rows > 0

\* the package is for a chapter of the library it names, as the chat socket
\* asks for it
ChapterOfLibrary(package) ==
  /\ package.library_id \in Libraries
  /\ package.chapter_id \in ChapterIds
  /\ chapters[package.chapter_id].library = package.library_id

\* C32: the system instruction contains exactly one scenario block, the
\* continuing block is chosen only when the turn is in neither a new project
\* nor a new chat, and is_new_project = true implies is_new_chat = true in
\* every context package; checked on the packages for a chapter of the
\* requested library.
C32_OneScenarioAndFlagsConsistent ==
  (context.system_instruction # <<>> /\ ChapterOfLibrary(context))
    => /\ Cardinality({k \in DOMAIN context.system_instruction :
                         context.system_instruction[k] \in
                           {"COLD START", "NEW CHAPTER", "CONTINUING CONVERSATION"}}) = 1
       /\ "CONTINUING CONVERSATION" \in InstructionBlocks(context)
            => ~context.is_new_project /\ ~context.is_new_chat
       /\ context.is_new_project => context.is_new_chat

\* ------------------------------------------------------------------------
\* Properties of SpecCheckIn
\* ------------------------------------------------------------------------

\* the entry is a date whose month and day are today's
MatchesToday(entry, today) ==
  /\ IsDate(entry.date)
  /\ entry.date.month = today.month
  /\ entry.date.day = today.day

\* the entry's month and day come up within 3 days after today
WithinThreeDays(entry, today) ==
  LET this_year == [year |-> today.year, month |-> entry.date.month, day |-> entry.date.day]
  IN /\ IsDate(entry.date)
     /\ IsDate(this_year)
     /\ 0 < DaysBetween(this_year, today)
     /\ DaysBetween(this_year, today) <= 3

\* a stored important date of type birthday matches today's month and day
BirthdayToday(c) ==
  /\ c.profile
  /\ \E i \in DOMAIN c.important_dates :
       c.important_dates[i].type = "birthday" /\ MatchesToday(c.important_dates[i], c.today)

\* rule (a): a birthday or an anniversary of an earlier year today, or a
\* deadline within 3 days
ImportantDateRule(c) ==
  /\ c.profile
  /\ \E i \in DOMAIN c.important_dates :
       LET entry == c.important_dates[i]
       IN \/ /\ MatchesToday(entry, c.today)
             /\ \/ entry.type = "birthday"
                \/ entry.type \in {"loss", "achievement"} /\ c.today.year > entry.date.year
          \/ entry.type = "deadline" /\ WithinThreeDays(entry, c.today)

\* rule (b): difficult last mood and 2 to 7 days silent
StressFollowupRule(c) ==
  /\ c.profile
  /\ c.emotional_context.current_mood \in DifficultMoods
  /\ 2 <= c.days_since /\ c.days_since <= 7

\* rule (c): a goal whose deadline is within 7 days at less than 80% progress
GoalDeadlineRule(c) ==
  /\ c.profile
  /\ \E i \in DOMAIN c.long_term_goals :
       LET goal == c.long_term_goals[i]
       IN /\ goal.deadline # NoDeadline /\ IsDate(goal.deadline)
          /\ 0 < DaysBetween(goal.deadline, c.today)
          /\ DaysBetween(goal.deadline, c.today) <= 7
          /\ goal.progress < 80

\* rule (d): 7 to 30 days silent
LongAbsenceRule(c) ==
  /\ c.profile
  /\ 7 <= c.days_since /\ c.days_since <= 30

\* C19: should_check_in returns the birthday message with priority "high"
\* whenever a stored important date of type birthday matches today's month and
\* day, and no message whenever none of the four rules is met (also for a user
\* without a profile).
C19_BirthdayMessageOrNone ==
  check_in.called
    => /\ BirthdayToday(check_in) => check_in.result = Message("birthday", "high")
       /\ (~ImportantDateRule(check_in) /\ ~StressFollowupRule(check_in)
             /\ ~GoalDeadlineRule(check_in) /\ ~LongAbsenceRule(check_in))
            => check_in.result = NoMessage

\* C20: should_check_in asks its rules in the order important date, stress
\* follow-up, goal deadline, long absence and stops at the first that holds:
\* the reason it returns is that of the highest-priority rule that holds.
C20_HighestPriorityRuleWins ==
  check_in.called
    => IF ImportantDateRule(check_in)
         THEN check_in.result.reason \in {"birthday", "loss_anniversary",
                                          "achievement_anniversary", "upcoming_deadline"}
       ELSE IF StressFollowupRule(check_in)
         THEN check_in.result.reason = "stress_followup"
       ELSE IF GoalDeadlineRule(check_in)
         THEN check_in.result.reason = "goal_deadline"
       ELSE IF LongAbsenceRule(check_in)
         THEN check_in.result.reason \in {"long_absence", "very_long_absence"}
       ELSE check_in.result.kind # "message"

\* ------------------------------------------------------------------------
\* Properties of SpecTurn
\* ------------------------------------------------------------------------

\* the request names a Library or a Chapter that has no row
NotFoundRequest ==
  \/ request.library_id \notin Libraries
  \/ request.chapter_id \notin ChapterIds

\* C21: a turn for a conversation unit or project that is not in the store
\* uses the empty defaults and never fails at a stage: it has not raised, and
\* the context retrieve_context loaded has the defaults of what is missing
C21_NotFoundTurnCompletes ==
  NotFoundRequest =>
    /\ request.stage # "raised"
    /\ request.stage \notin {"none", "retrieve_context"} =>
         /\ request.library_id \notin Libraries =>
              context.project_title = "New Project" /\ context.is_new_project
         /\ request.chapter_id \notin ChapterIds =>
              context.is_new_chat /\ context.recent_messages = 0

\* C37: saving a chapter summary changes only the chapter's summary_text: the
\* save of a compression job leaves message_count as the turns committed it,
\* also an increment committed between the job's read of the chapter and its
\* save, and leaves every Message row as it is.
C37_SaveChangesSummaryOnly ==
  [][\A t \in Turns :
       (cjob[t].pc = "read" /\ cjob'[t].pc = "saved")
         => /\ message_count' = message_count
            /\ messages' = messages
            /\ cleanup' = cleanup
     ]_vars

\* a compression job has saved its summary after a turn had added 2 to
\* message_count since the job read the chapter, and the count still holds
\* that increment
C37_Witness ==
  \E t \in Turns :
    /\ cjob[t].pc \in {"saved", "done"}
    /\ cjob[t].count_at_save > cjob[t].message_count
    /\ cjob[t].message_count > 0
    /\ message_count >= cjob[t].count_at_save

\* C39: should_check_in returns one message or nothing and never raises, for
\* every stored list of important dates (29 February and malformed dates
\* included) and every value of today.
C39_CheckInNeverRaises ==
  check_in.called => check_in.result.kind \in {"message", "none"}

\* ------------------------------------------------------------------------
\* Properties of SpecPersist
\* ------------------------------------------------------------------------

\* no turn is inside its persist stage
NoPersistInProgress ==
  \A t \in Turns :
    pc[t] \notin {"save_user_message", "save_ai_message", "update_message_count"}

\* the Message rows of a sender that turn t wrote
WrittenBy(t, sender) ==
  {i \in DOMAIN messages : i > count0 /\ messages[i].turn = t /\ messages[i].sender = sender}

\* C36: persist_exchange is all-or-nothing: whenever no persist stage is in
\* progress on the chapter, also after one that failed part-way, message_count
\* is the number of messages the turns have written for the chapter, and every
\* turn wrote its user message and its agent message as a pair.
C36_PersistAllOrNothing ==
  NoPersistInProgress
    => /\ message_count = Len(messages)
       /\ \A t \in Turns :
            Cardinality(WrittenBy(t, "USER")) = Cardinality(WrittenBy(t, "AI"))

\* ------------------------------------------------------------------------
\* Properties of SpecCleanup
\* ------------------------------------------------------------------------

\* C24: cleanup_compressed_messages deletes only messages that were folded
\* into the chapter summary: every deleted message is in the summary or was in
\* the window of a compression that wrote its summary.
C24_CleanupDeletesOnlyCompressed ==
  cleanup.deleted \subseteq summary_text \cup UNION {cjob[t].msgs : t \in Compressed}

\* the Message rows among the n newest of the chapter
NewestMessages(n) ==
  {i \in LiveMessages : Cardinality({j \in LiveMessages : j > i}) < n}

\* C35: the weekly cleanup keeps the most recent 100 messages of every
\* chapter: its delete removes no message among the 100 newest of the chapter,
\* also when a turn persists its two messages between the computation of the
\* keep set and the delete; a chapter with message_count <= 100 has lost no
\* message.
C35_CleanupKeepsNewest ==
  [][/\ (cleanup.pc = "read" /\ cleanup'.pc = "idle")
          => NewestMessages(KeepNewest) \cap cleanup'.deleted = {}
     /\ message_count <= CleanupAbove => cleanup.deleted = {}
    ]_vars

\* ------------------------------------------------------------------------
\* Properties of SpecMood
\* ------------------------------------------------------------------------

C28_Caps ==
  /\ Len(profile.mood_history) <= 20
  /\ Len(profile.recent_wins) <= 5

\* a profile update that changes the mood leaves the entry of this change
\* last, behind the newest entries of the history before it, in their order;
\* any other update leaves the history as it was
C28_MostRecentInOrder ==
  LET old == profile.mood_history
      new == profile'.mood_history
  IN IF profile'.current_mood # profile.current_mood
       THEN /\ Len(new) = Min(20, Len(old) + 1)
            /\ new[Len(new)] = [from |-> profile.current_mood, to |-> profile'.current_mood]
            /\ \A k \in 1 .. (Len(new) - 1) : new[k] = old[Len(old) - (Len(new) - 1) + k]
       ELSE new = old

\* C28: after any sequence of profile updates mood_history holds at most 20
\* entries, the 20 most recent in order, and recent_wins holds at most 5.
C28_MoodHistoryAndWinsCapped ==
  [](C28_Caps) /\ [][C28_MostRecentInOrder]_vars

\* more than 20 mood changes and more than 5 wins have been recorded: both
\* lists are full and the oldest mood change is gone
C28_Witness ==
  /\ Len(profile.mood_history) = 20
  /\ profile.mood_history[1] # [from |-> "neutral", to |-> "happy"]
  /\ Len(profile.recent_wins) = 5
  /\ \A k \in 1 .. 2 : profile.recent_wins[k] \in {100, 101}

\* ------------------------------------------------------------------------
\* Properties of SpecTrend
\* ------------------------------------------------------------------------

\* the trend the last 5 entries give: more positive than negative entries by
\* more than one, the inverse, or neither
TrendOfLastFive(mood_history) ==
  LET recent == LastN(mood_history, 5)
      positive == Cardinality({k \in DOMAIN recent : recent[k].to \in {"excited", "happy", "hopeful", "grateful", "proud"}})
      negative == Cardinality({k \in DOMAIN recent : recent[k].to \in {"stressed", "sad", "frustrated", "anxious", "tired"}})
  IN IF positive > negative + 1 THEN "improving"
     ELSE IF negative > positive + 1 THEN "declining"
     ELSE "stable"

\* C31: the mood trend a profile update stores is a function of the last 5
\* mood-history entries only: "improving" when the positive entries outnumber
\* the negative ones by more than 1, "declining" when the negative outnumber
\* the positive by more than 1, "stable" otherwise, for a history of any
\* length.
C31_TrendOfLastFive ==
  Get(profile.relationship_metrics, "total_messages", 0) > 0
    => profile.mood_trend = TrendOfLastFive(profile.mood_history)

\* ------------------------------------------------------------------------
\* Properties of SpecNormalize
\* ------------------------------------------------------------------------

\* C40: mention normalization is idempotent: for every mention, normalizing
\* the normalized name gives the same name, so the stored matching key is
\* found again by an exact match on a mention equal to that key.
C40_NormalizeIdempotent ==
  norm.at = "matched" => norm.key_normalized = norm.name_normalized

====
